---- MODULE Spec2Model ----
(***************************************************************************)
(* roundtable-ui: the reconnecting event stream hook (useWebSocket), the   *)
(* chain step layout (layoutSteps) and step node (StepDAG), the fleet      *)
(* activity aggregation (FleetPage.knightActivity), the backend dispatch   *)
(* paths (taskDispatchHandler, wsHandler) and the dispatch form            *)
(* (TasksPage), one backend WebSocket connection from its subscriptions to *)
(* its cleanup, the fleet graph's activity and edge debounce (FleetGraph), *)
(* the backend chain mapping (parseChainResource), the domain each         *)
(* consumer reads from a subject, and the task notifications               *)
(* (useTaskNotifications).                                                 *)
(***************************************************************************)
EXTENDS Integers, Sequences, FiniteSets, TLC

VARIABLES
  \* ---- useWebSocket (ui/src/hooks/useWebSocket.ts, seeded variant) ----
  hookPc,          \* "init" (constructed), "mounted" (effect ran), "unmounted"
  mountedRef,      \* mountedRef.current
  events,          \* useState events: newest first
  connected,       \* useState connected
  error,           \* useState error: "null" or the message
  wsRef,           \* wsRef.current: 0 (null) or an index into sockets
  sockets,         \* every WebSocket object made: [readyState, onclose]
  reconnectDelay,  \* reconnectDelay.current
  reconnectTimer,  \* reconnectTimer.current: 0 (null) or a timer id
  timers,          \* the browser's pending timeouts: [id, delay]
  timerSeq,        \* timer ids handed out so far
  fetchState,      \* the /api/tasks request: "none", "pending", "done"
  outbox,          \* frames handed to WebSocket.send: [sock, msg]
  recvCount,       \* messages JSON.parse accepted so far
  junkCount,       \* messages JSON.parse rejected so far
  clearCount,      \* clearEvents calls so far
  clearedAt,       \* recvCount at the last clearEvents
  seeded,          \* the historical batch merged since the last clearEvents
  closeStreak,     \* onclose runs since the last onopen run
  last,            \* the handler that ran last: [op, sock, arg]
  \* ---- layoutSteps (ui/src/pages/Chains.tsx) ----
  steps,           \* the argument: [name, hasDeps, dependsOn]
  layPc,           \* "idle", "forEach", "done", "threw"
  fi,              \* index of steps.forEach
  stack,           \* the getCol activations: [name, i, parents]
  columns,         \* the Map columns in insertion order: [name, col]
  positions,       \* the Map returned: name -> [col, row]
  layErr,          \* the exception that left layoutSteps, or "null"
  \* ---- FleetPage.knightActivity (ui/src/pages/Fleet.tsx) ----
  fleetEvents,     \* the events the page got from useWebSocket, newest first
  fleetPc,         \* "idle", "done"
  activity,        \* the memo's value: knight -> [recent, lastActive, busy, sparkline]
  \* ---- taskDispatchHandler, wsHandler read loop (api/main.go) ----
  bus,             \* messages nc.Publish accepted: [subject, payload]
  clockMs,         \* time.Now().UnixMilli()
  dispLast,        \* the request handled last and its answer
  \* ---- wsHandler: the goroutines writing to conn (api/main.go) ----
  handlerPc,       \* "upgraded", "taskSub", "resultSub", "loop", "unsubTask",
                   \* "unsubResult", "close", "returned"
  subs,            \* subscription -> "none", "active", "unsubscribed"
  recvd,           \* subscription -> bus messages handed to its callback so far
  cur,             \* subscription -> number of the message its callback writes
  connPc,          \* writer -> "unborn", "idle", "lock", "deadline", "write",
                   \* "unlock", "gone"
  writeMu,         \* writeMu: "free" or the writer holding it
  doneClosed,      \* whether close(done) ran
  connClosed,      \* whether conn.Close() ran
  ticker,          \* "none", "running", "buffered" (stopped, one tick left), "stopped"
  pingErr,         \* err of the ping goroutine's last WriteMessage
  wire,            \* the calls of conn.WriteMessage in order: [by, kind, n, err]
  clientRead,      \* frames of wire the browser has taken
  clientEvents,    \* the events state of the client of this connection, newest first
  \* ---- FleetGraph: the activity memo (ui/src/components/FleetGraph.tsx) ----
  graphEvents,     \* the events prop, newest first: [type, subject, task_id]
  graphPc,         \* "idle", "done"
  graphAct,        \* the memo's value: knight -> [recentTasks, busy, heat, pendingTasks]
  \* ---- FleetGraph: the debounced edge effect (FleetGraph.tsx) ----
  debPc,           \* "new", "mounted", "unmounted"
  debVersion,      \* which events prop the last render got: 0, 1, 2, ...
  debClock,        \* milliseconds since the component was made
  changeAt,        \* changeAt[v + 1]: when the render with events prop v ran
  edgeTimerRef,    \* edgeTimerRef.current: 0 (null) or a timeout id
  debTimers,       \* the pending timeouts: [id, due, version]
  debSeq,          \* timeout ids handed out so far
  actRuns,         \* the events props the activity memo and setNodes ran on
  edgeRuns,        \* the runs of buildEdges + setEdges: [version, at]
  \* ---- parseChainResource (api/main.go) ----
  chainSpec,       \* spec.steps of the Chain object: entries of any JSON type
  chainStatus,     \* status.steps of the Chain object
  chainPc,         \* "idle", "done"
  chainSteps,      \* chain.Steps of the ChainSummary returned
  \* ---- StepDAG: one step node (ui/src/pages/Chains.tsx) ----
  nodeStep,        \* the step of the node: [name, knight, phase, retryCount]
  nodeCurrent,     \* the currentStep prop: "" when the run names none
  nodePc,          \* "idle", "done"
  nodeView,        \* what the node shows: [pulse, border, label]
  \* ---- the consumers' reading of one event's domain (ui/src) ----
  domEvent,        \* the event: [type, subject as its segments, dataDomain]
  domSeen,         \* consumer -> the domain it took, or "none" before it ran
  \* ---- useTaskNotifications in NotificationWatcher (ui/src) ----
  seenCount,       \* seenCount.current
  effEvents,       \* the events array the effect ran on last
  effRecv,         \* recvCount when the effect ran last
  toasts,          \* event -> the number of addToast calls made for it
  \* ---- TasksPage: the dispatch form (ui/src/pages/Tasks.tsx) ----
  formTask,        \* the task text of the form: [chars, bytes, blank]
  formResults,     \* the recent-dispatch list, newest first: [taskId, status]
  formLast         \* how the last dispatch() went: [how, status], how being "none",
                   \* "skipped", "neterr" or "answered"

wsVars == <<hookPc, mountedRef, events, connected, error, wsRef, sockets,
            reconnectDelay, reconnectTimer, timers, timerSeq, fetchState,
            outbox, recvCount, junkCount, clearCount, clearedAt, seeded,
            closeStreak, last>>

layVars == <<steps, layPc, fi, stack, columns, positions, layErr>>

fleetVars == <<fleetEvents, fleetPc, activity>>

dispVars == <<bus, clockMs, dispLast>>

connVars == <<handlerPc, subs, recvd, cur, connPc, writeMu, doneClosed, connClosed,
              ticker, pingErr, wire, clientRead, clientEvents>>

graphVars == <<graphEvents, graphPc, graphAct>>

debVars == <<debPc, debVersion, debClock, changeAt, edgeTimerRef, debTimers, debSeq, actRuns, edgeRuns>>

chainVars == <<chainSpec, chainStatus, chainPc, chainSteps>>

nodeVars == <<nodeStep, nodeCurrent, nodePc, nodeView>>

domVars == <<domEvent, domSeen>>

toastVars == <<seenCount, effEvents, effRecv, toasts>>

formVars == <<formTask, formResults, formLast>>

vars == <<wsVars, layVars, fleetVars, dispVars, connVars, graphVars, debVars, chainVars, nodeVars, domVars, toastVars, formVars>>

\* what the handlers of the hook leave alone
notWs == <<layVars, fleetVars, dispVars, connVars, graphVars, debVars, chainVars, nodeVars, domVars, toastVars, formVars>>

\* what layoutSteps leaves alone
notLay == <<wsVars, fleetVars, dispVars, connVars, graphVars, debVars, chainVars, nodeVars, domVars, toastVars, formVars>>

\* what the fleet page's memo leaves alone
notFleet == <<wsVars, layVars, dispVars, connVars, graphVars, debVars, chainVars, nodeVars, domVars, toastVars, formVars>>

\* what the dispatch handlers leave alone
notDisp == <<wsVars, layVars, fleetVars, connVars, graphVars, debVars, chainVars, nodeVars, domVars, toastVars, formVars>>

\* what the writers of the backend connection leave alone
notConn == <<wsVars, layVars, fleetVars, dispVars, graphVars, debVars, chainVars, nodeVars, domVars, toastVars, formVars>>

\* what the fleet graph's activity memo leaves alone
notGraph == <<wsVars, layVars, fleetVars, dispVars, connVars, debVars, chainVars, nodeVars, domVars, toastVars, formVars>>

\* what the fleet graph's renders and timeouts leave alone
notDeb == <<wsVars, layVars, fleetVars, dispVars, connVars, graphVars, chainVars, nodeVars, domVars, toastVars, formVars>>

\* what parseChainResource leaves alone
notChain == <<wsVars, layVars, fleetVars, dispVars, connVars, graphVars, debVars, nodeVars, domVars, toastVars, formVars>>

\* what the drawing of a step node leaves alone
notNode == <<wsVars, layVars, fleetVars, dispVars, connVars, graphVars, debVars, chainVars, domVars, toastVars, formVars>>

\* what the reading of an event's domain leaves alone
notDom == <<wsVars, layVars, fleetVars, dispVars, connVars, graphVars, debVars, chainVars, nodeVars, toastVars, formVars>>

\* what the notification effect leaves alone
notNotify == <<wsVars, layVars, fleetVars, dispVars, connVars, graphVars, debVars, chainVars, nodeVars, domVars, formVars>>

\* what the dispatch form leaves alone
notForm == <<wsVars, layVars, fleetVars, dispVars, connVars, graphVars, debVars, chainVars, nodeVars, domVars, toastVars>>

\* what the dispatch form and the backend answering it leave alone
notFormDisp == <<wsVars, layVars, fleetVars, connVars, graphVars, debVars, chainVars, nodeVars, domVars, toastVars>>

(***************************************************************************)
(* Constants of the source and bounds of the model                         *)
(***************************************************************************)
MAX_EVENTS == 200
RECONNECT_DELAY_MS == 3000
MAX_RECONNECT_DELAY_MS == 30000

MaxSockets == 3    \* WebSocket objects made in one run of the connection machine
MaxAttempts == 6   \* WebSocket objects made in one run of the backoff machine
MaxMsgs == 2       \* inbound frames in one run of the connection machine
MaxOutbox == 1     \* frames sent in one run
MaxClears == 1     \* clearEvents calls in one run
MaxHist == 2       \* length of a short /api/tasks result list
LiveOverflow == 3  \* live events received beyond MAX_EVENTS in the buffer runs

(***************************************************************************)
(* Helpers: Array.prototype.slice(0, n), reverse, Math.min                 *)
(***************************************************************************)
Min(a, b) == IF a <= b THEN a ELSE b

Slice0(s, n) == SubSeq(s, 1, Min(n, Len(s)))

Reverse(s) == [i \in 1..Len(s) |-> s[Len(s) + 1 - i]]

Null == "null"

(***************************************************************************)
(* Inbound frames. JSON.parse throws on text that is not JSON; any JSON    *)
(* value is returned and typed NatsEvent without a run-time check.         *)
(***************************************************************************)
Frames == {"event", "json", "garbage"}

\* variant: the catch never triggers
JSONParseNeverThrows(frame) == FALSE

JSONParseThrows(frame) == frame = "garbage"

\* the value JSON.parse returns for the k-th accepted frame
ParsedEvent(frame, k) == [src |-> "live", n |-> k, shape |-> frame]

\* /api/tasks answers: a failure, or {results: [...]} oldest first
HistLens == (0..MaxHist) \cup {MAX_EVENTS + 1}

HistResults(n) == [i \in 1..n |-> [src |-> "hist", n |-> i, shape |-> "event"]]

\* historical = results.map(...).reverse().slice(0, MAX_EVENTS)
Historical(results) == Slice0(Reverse(results), MAX_EVENTS)

\* variant: the cut keeps the tail of next
PrependCappedKeepsTail(event, prev) ==
  LET next == <<event>> \o prev
  IN  IF Len(next) > MAX_EVENTS THEN SubSeq(next, 2, Len(next)) ELSE next

\* variant: the new event goes behind the buffer
AppendCapped(event, prev) == Slice0(prev \o <<event>>, MAX_EVENTS)

\* setEvents updater of ws.onmessage
PrependCapped(event, prev) ==
  LET next == <<event>> \o prev
  IN  IF Len(next) > MAX_EVENTS THEN Slice0(next, MAX_EVENTS) ELSE next

\* variant: history merged ahead of the live events
MergeHistoryFirst(prev, historical) == Slice0(historical \o prev, MAX_EVENTS)

\* setEvents updater of the history seed
MergeHistory(prev, historical) == Slice0(prev \o historical, MAX_EVENTS)

\* variant: doubling without the cap
NextDelayUncapped(delay) == delay * 2

\* reconnectDelay.current after a close
NextDelay(delay) == Min(delay * 2, MAX_RECONNECT_DELAY_MS)

DispatchArgs == {<<"galahad", "security", "scan">>, <<"kay", "research", "read">>}

DispatchFrame(a) == [action |-> "dispatch", knight |-> a[1], domain |-> a[2], task |-> a[3]]

(***************************************************************************)
(* WebSocket objects                                                       *)
(***************************************************************************)
\* WebSocket.close(): CONNECTING or OPEN becomes CLOSING, else nothing
CloseCall(socks, s) ==
  IF socks[s].readyState \in {"CONNECTING", "OPEN"}
  THEN [socks EXCEPT ![s].readyState = "CLOSING"]
  ELSE socks

\* wsRef.current.onclose = null; wsRef.current.close()
DetachAndClose(socks, ref) ==
  IF ref = 0 THEN socks
  ELSE CloseCall([socks EXCEPT ![ref].onclose = FALSE], ref)

\* variant: sends whenever a socket exists
CanSendAnyState(ref, socks) == ref # 0

\* wsRef.current?.readyState === WebSocket.OPEN
CanSend(ref, socks) == ref # 0 /\ socks[ref].readyState = "OPEN"

\* variant: the cleanup leaves the timer pending
ClearTimeoutSkipped(pending, id) == pending

\* if (reconnectTimer.current) clearTimeout(reconnectTimer.current)
ClearTimeout(pending, id) ==
  IF id # 0 THEN {t \in pending : t.id # id} ELSE pending

NewSocket == [readyState |-> "CONNECTING", onclose |-> TRUE]

Ran(op, s, arg) == [op |-> op, sock |-> s, arg |-> arg]

(***************************************************************************)
(* connect(): the part of a handler that (re)opens the socket.             *)
(***************************************************************************)
Connect ==
  IF ~mountedRef
  THEN UNCHANGED <<sockets, wsRef>>
  ELSE /\ sockets' = Append(DetachAndClose(sockets, wsRef), NewSocket)
       /\ wsRef' = Len(sockets) + 1

WsInit ==
  /\ hookPc = "init"
  /\ mountedRef = TRUE
  /\ events = <<>>
  /\ connected = FALSE
  /\ error = Null
  /\ wsRef = 0
  /\ sockets = <<>>
  /\ reconnectDelay = RECONNECT_DELAY_MS
  /\ reconnectTimer = 0
  /\ timers = {}
  /\ timerSeq = 0
  /\ fetchState = "none"
  /\ outbox = <<>>
  /\ recvCount = 0
  /\ junkCount = 0
  /\ clearCount = 0
  /\ clearedAt = 0
  /\ seeded = <<>>
  /\ closeStreak = 0
  /\ last = Ran("new", 0, "")

\* the effect body: mountedRef.current = true; fetch('/api/tasks'); connect()
Mount ==
  /\ hookPc = "init"
  /\ hookPc' = "mounted"
  /\ mountedRef' = TRUE
  /\ fetchState' = "pending"
  /\ Connect
  /\ last' = Ran("mount", 0, "")
  /\ UNCHANGED notWs
  /\ UNCHANGED <<events, connected, error, reconnectDelay, reconnectTimer,
                 timers, timerSeq, outbox, recvCount, junkCount, clearCount,
                 clearedAt, seeded, closeStreak>>

\* the effect cleanup
Unmount ==
  /\ hookPc = "mounted"
  /\ hookPc' = "unmounted"
  /\ mountedRef' = FALSE
  /\ timers' = ClearTimeout(timers, reconnectTimer)
  /\ sockets' = DetachAndClose(sockets, wsRef)
  /\ last' = Ran("unmount", 0, "")
  /\ UNCHANGED notWs
  /\ UNCHANGED <<events, connected, error, wsRef, reconnectDelay,
                 reconnectTimer, timerSeq, fetchState, outbox, recvCount,
                 junkCount, clearCount, clearedAt, seeded, closeStreak>>

\* the connection is established: readyState OPEN, then ws.onopen
SocketOpen(s) ==
  /\ s \in 1..Len(sockets)
  /\ sockets[s].readyState = "CONNECTING"
  /\ sockets' = [sockets EXCEPT ![s].readyState = "OPEN"]
  /\ IF ~mountedRef
     THEN UNCHANGED <<connected, error, reconnectDelay, closeStreak>>
     ELSE /\ connected' = TRUE
          /\ error' = Null
          /\ reconnectDelay' = RECONNECT_DELAY_MS
          /\ closeStreak' = 0
  /\ last' = Ran("onopen", s, "")
  /\ UNCHANGED notWs
  /\ UNCHANGED <<hookPc, mountedRef, events, wsRef, reconnectTimer, timers,
                 timerSeq, fetchState, outbox, recvCount, junkCount,
                 clearCount, clearedAt, seeded>>

\* the connection is closed: readyState CLOSED, then ws.onerror when the
\* connection failed, then ws.onclose when a handler is still attached
SocketClosed(s, failed) ==
  /\ s \in 1..Len(sockets)
  /\ sockets[s].readyState \in {"CONNECTING", "OPEN", "CLOSING"}
  /\ sockets[s].readyState = "CONNECTING" => failed
  /\ sockets' = [sockets EXCEPT ![s].readyState = "CLOSED"]
  /\ error' = IF failed /\ mountedRef THEN "WebSocket connection error" ELSE error
  /\ IF sockets[s].onclose /\ mountedRef
     THEN /\ connected' = FALSE
          /\ reconnectDelay' = NextDelay(reconnectDelay)
          /\ timerSeq' = timerSeq + 1
          /\ reconnectTimer' = timerSeq + 1
          /\ timers' = timers \cup {[id |-> timerSeq + 1, delay |-> reconnectDelay]}
          /\ closeStreak' = closeStreak + 1
     ELSE UNCHANGED <<connected, reconnectDelay, timerSeq, reconnectTimer,
                      timers, closeStreak>>
  /\ last' = Ran("onclose", s, IF failed THEN "failed" ELSE "clean")
  /\ UNCHANGED notWs
  /\ UNCHANGED <<hookPc, mountedRef, events, wsRef, fetchState, outbox,
                 recvCount, junkCount, clearCount, clearedAt, seeded>>

\* a frame arrives on an OPEN socket: ws.onmessage
SocketMessage(s, frame) ==
  /\ s \in 1..Len(sockets)
  /\ sockets[s].readyState = "OPEN"
  /\ IF ~mountedRef
     THEN UNCHANGED <<events, recvCount, junkCount>>
     ELSE IF JSONParseThrows(frame)
          THEN /\ junkCount' = junkCount + 1
               /\ UNCHANGED <<events, recvCount>>
          ELSE /\ events' = PrependCapped(ParsedEvent(frame, recvCount + 1), events)
               /\ recvCount' = recvCount + 1
               /\ UNCHANGED junkCount
  /\ last' = Ran("onmessage", s, frame)
  /\ UNCHANGED notWs
  /\ UNCHANGED <<hookPc, mountedRef, connected, error, wsRef, sockets,
                 reconnectDelay, reconnectTimer, timers, timerSeq, fetchState,
                 outbox, clearCount, clearedAt, seeded, closeStreak>>

\* variant: the timeout's callback does not call connect
TimerFireNoConnect(t) ==
  /\ t \in timers
  /\ timers' = timers \ {t}
  /\ last' = Ran("timer", 0, "")
  /\ UNCHANGED notWs
  /\ UNCHANGED <<hookPc, mountedRef, events, connected, error, wsRef, sockets,
                 reconnectDelay, reconnectTimer, timerSeq, fetchState, outbox,
                 recvCount, junkCount, clearCount, clearedAt, seeded, closeStreak>>

\* a pending timeout fires: connect()
TimerFire(t) ==
  /\ t \in timers
  /\ timers' = timers \ {t}
  /\ Connect
  /\ last' = Ran("timer", 0, "")
  /\ UNCHANGED notWs
  /\ UNCHANGED <<hookPc, mountedRef, events, connected, error, reconnectDelay,
                 reconnectTimer, timerSeq, fetchState, outbox, recvCount,
                 junkCount, clearCount, clearedAt, seeded, closeStreak>>

\* the /api/tasks request settles: n < 0 is a failed request or a body that
\* is not JSON (the catch), else the .then with n results
FetchSettled(n) ==
  /\ fetchState = "pending"
  /\ fetchState' = "done"
  /\ IF n >= 0 /\ mountedRef /\ Len(Historical(HistResults(n))) > 0
     THEN /\ events' = MergeHistory(events, Historical(HistResults(n)))
          /\ seeded' = Historical(HistResults(n))
     ELSE UNCHANGED <<events, seeded>>
  /\ last' = Ran("seed", 0, IF n < 0 THEN "failed" ELSE "ok")
  /\ UNCHANGED notWs
  /\ UNCHANGED <<hookPc, mountedRef, connected, error, wsRef, sockets,
                 reconnectDelay, reconnectTimer, timers, timerSeq, outbox,
                 recvCount, junkCount, clearCount, clearedAt, closeStreak>>

\* dispatch(knight, domain, task)
Dispatch(a) ==
  /\ hookPc # "init"
  /\ IF CanSend(wsRef, sockets)
     THEN outbox' = Append(outbox, [sock |-> wsRef, msg |-> DispatchFrame(a)])
     ELSE UNCHANGED outbox
  /\ last' = Ran("dispatch", wsRef, a[3])
  /\ UNCHANGED notWs
  /\ UNCHANGED <<hookPc, mountedRef, events, connected, error, wsRef, sockets,
                 reconnectDelay, reconnectTimer, timers, timerSeq, fetchState,
                 recvCount, junkCount, clearCount, clearedAt, seeded,
                 closeStreak>>

\* clearEvents()
ClearEvents ==
  /\ hookPc = "mounted"
  /\ events' = <<>>
  /\ clearCount' = clearCount + 1
  /\ clearedAt' = recvCount
  /\ seeded' = <<>>
  /\ last' = Ran("clear", 0, "")
  /\ UNCHANGED notWs
  /\ UNCHANGED <<hookPc, mountedRef, connected, error, wsRef, sockets,
                 reconnectDelay, reconnectTimer, timers, timerSeq, fetchState,
                 outbox, recvCount, junkCount, closeStreak>>

(***************************************************************************)
(* layoutSteps(steps): columns by memoized recursion over dependsOn, rows  *)
(* by insertion order of the Map columns.                                  *)
(***************************************************************************)
StepNames == <<"a", "b", "c">>

\* a name no step of the list carries
GhostName == "zz"

MaxDeps == 2      \* entries of one dependsOn array
StackLimit == 5   \* getCol activations the engine's call stack holds

DepNames == {StepNames[i] : i \in DOMAIN StepNames} \cup {GhostName}

DepSeqs ==
  UNION {{q \in [1..n -> DepNames] : \A i, j \in 1..n : i # j => q[i] # q[j]}
         : n \in 0..MaxDeps}

\* dependsOn: undefined/null, or an array
DepOptions ==
  {[hasDeps |-> FALSE, dependsOn |-> <<>>]}
    \cup {[hasDeps |-> TRUE, dependsOn |-> q] : q \in DepSeqs}

\* the list of the first n names, step i with the dependsOn of f[i]
StepList(n, f) ==
  [i \in 1..n |-> [name |-> StepNames[i], hasDeps |-> f[i].hasDeps,
                   dependsOn |-> f[i].dependsOn]]

\* stepMap = new Map(steps.map(s => [s.name, s])): the last entry of a name
StepMapHas(list, name) == \E i \in DOMAIN list : list[i].name = name

StepMapGet(list, name) ==
  list[CHOOSE i \in DOMAIN list :
         /\ list[i].name = name
         /\ \A j \in DOMAIN list : list[j].name = name => j <= i]

\* !step || !step.dependsOn || step.dependsOn.length === 0
NoParents(list, name) ==
  \/ ~StepMapHas(list, name)
  \/ ~StepMapGet(list, name).hasDeps
  \/ Len(StepMapGet(list, name).dependsOn) = 0

ColumnsHas(cols, name) == \E i \in DOMAIN cols : cols[i].name = name

ColumnsGet(cols, name) == cols[CHOOSE i \in DOMAIN cols : cols[i].name = name].col

\* Map.set: a new key goes last, an old key keeps its place
ColumnsSet(cols, name, c) ==
  IF ColumnsHas(cols, name)
  THEN [i \in DOMAIN cols |-> IF cols[i].name = name THEN [name |-> name, col |-> c]
                              ELSE cols[i]]
  ELSE Append(cols, [name |-> name, col |-> c])

RECURSIVE MaxOf(_)
MaxOf(q) ==
  IF Len(q) = 1 THEN q[1]
  ELSE LET m == MaxOf(Tail(q)) IN IF q[1] >= m THEN q[1] ELSE m

\* variant: the column of the first parent only
ColFromFirstParent(parents) == parents[1] + 1

\* const col = Math.max(...parents) + 1
ColFromParents(parents) == MaxOf(parents) + 1

\* colGroups.get(col): the names of a column in the order of columns
ColGroup(cols, c) == SelectSeq(cols, LAMBDA e : e.col = c)

IndexIn(group, name) == CHOOSE i \in DOMAIN group : group[i].name = name

\* names.forEach((name, row) => positions.set(name, { col, row }))
PositionsOf(cols) ==
  [nm \in {cols[i].name : i \in DOMAIN cols} |->
     [col |-> ColumnsGet(cols, nm),
      row |-> IndexIn(ColGroup(cols, ColumnsGet(cols, nm)), nm) - 1]]

NoPositions == [nm \in {} |-> 0]

Activation(name) == [name |-> name, i |-> 0, parents |-> <<>>]

Top == stack[Len(stack)]

\* return v from the innermost getCol: the caller's map() collects it
ReturnFrom(stk, v) ==
  LET rest == SubSeq(stk, 1, Len(stk) - 1)
  IN  IF Len(rest) = 0 THEN rest
      ELSE [rest EXCEPT ![Len(rest)].parents = Append(@, v)]

LayIdle ==
  /\ steps = <<>>
  /\ layPc = "idle"
  /\ fi = 0
  /\ stack = <<>>
  /\ columns = <<>>
  /\ positions = NoPositions
  /\ layErr = Null

LayInit ==
  /\ \E n \in 0..Len(StepNames) : \E f \in [1..n -> DepOptions] : steps = StepList(n, f)
  /\ layPc = "idle"
  /\ fi = 0
  /\ stack = <<>>
  /\ columns = <<>>
  /\ positions = NoPositions
  /\ layErr = Null

\* layoutSteps is called: stepMap and columns are made
LayoutStart ==
  /\ layPc = "idle"
  /\ layPc' = "forEach"
  /\ fi' = 1
  /\ UNCHANGED <<steps, stack, columns, positions, layErr>>
  /\ UNCHANGED notLay

\* steps.forEach(s => getCol(s.name)): the next call
ForEachCall ==
  /\ layPc = "forEach" /\ stack = <<>> /\ fi <= Len(steps)
  /\ stack' = <<Activation(steps[fi].name)>>
  /\ fi' = fi + 1
  /\ UNCHANGED <<steps, layPc, columns, positions, layErr>>
  /\ UNCHANGED notLay

\* getCol entered: the memo, then the steps without parents
GetColEnter ==
  /\ layPc = "forEach" /\ stack # <<>> /\ Top.i = 0
  /\ IF ColumnsHas(columns, Top.name)
     THEN /\ stack' = ReturnFrom(stack, ColumnsGet(columns, Top.name))
          /\ UNCHANGED columns
     ELSE IF NoParents(steps, Top.name)
          THEN /\ columns' = ColumnsSet(columns, Top.name, 0)
               /\ stack' = ReturnFrom(stack, 0)
          ELSE /\ stack' = [stack EXCEPT ![Len(stack)].i = 1]
               /\ UNCHANGED columns
  /\ UNCHANGED <<steps, layPc, fi, positions, layErr>>
  /\ UNCHANGED notLay

\* step.dependsOn.map(d => getCol(d)): the call for the next parent
GetColRecurse ==
  /\ layPc = "forEach" /\ stack # <<>> /\ Top.i >= 1
  /\ Top.i <= Len(StepMapGet(steps, Top.name).dependsOn)
  /\ Len(stack) < StackLimit
  /\ stack' = Append([stack EXCEPT ![Len(stack)].i = @ + 1],
                     Activation(StepMapGet(steps, Top.name).dependsOn[Top.i]))
  /\ UNCHANGED <<steps, layPc, fi, columns, positions, layErr>>
  /\ UNCHANGED notLay

\* the same call with the call stack exhausted: RangeError leaves layoutSteps
GetColOverflow ==
  /\ layPc = "forEach" /\ stack # <<>> /\ Top.i >= 1
  /\ Top.i <= Len(StepMapGet(steps, Top.name).dependsOn)
  /\ Len(stack) >= StackLimit
  /\ stack' = <<>>
  /\ layPc' = "threw"
  /\ layErr' = "RangeError"
  /\ UNCHANGED <<steps, fi, columns, positions>>
  /\ UNCHANGED notLay

\* every parent returned: columns.set(name, col); return col
GetColFinish ==
  /\ layPc = "forEach" /\ stack # <<>> /\ Top.i >= 1
  /\ Top.i > Len(StepMapGet(steps, Top.name).dependsOn)
  /\ columns' = ColumnsSet(columns, Top.name, ColFromParents(Top.parents))
  /\ stack' = ReturnFrom(stack, ColFromParents(Top.parents))
  /\ UNCHANGED <<steps, layPc, fi, positions, layErr>>
  /\ UNCHANGED notLay

\* the two loops over columns and colGroups; return positions
AssignRows ==
  /\ layPc = "forEach" /\ stack = <<>> /\ fi > Len(steps)
  /\ positions' = PositionsOf(columns)
  /\ layPc' = "done"
  /\ UNCHANGED <<steps, fi, stack, columns, layErr>>
  /\ UNCHANGED notLay

NextLayout ==
  \/ LayoutStart
  \/ ForEachCall
  \/ GetColEnter
  \/ GetColRecurse
  \/ GetColOverflow
  \/ GetColFinish
  \/ AssignRows

(***************************************************************************)
(* FleetPage.knightActivity: the activity record of every knight that has  *)
(* an event in the 30 minute window.                                       *)
(***************************************************************************)
\* KNIGHT_CONFIG: knight -> domain
KNIGHT_CONFIG ==
  [galahad |-> "security", kay |-> "research", tristan |-> "infra",
   gawain |-> "project", agravain |-> "pentest", bedivere |-> "home",
   percival |-> "finance", patsy |-> "vault", gareth |-> "wellness",
   lancelot |-> "career"]

\* knightNameForDomain(domainOrName): a knight's name is returned as it is,
\* a domain gives the first knight configured with it, anything else null
knightNameForDomain(domainOrName) ==
  IF domainOrName \in DOMAIN KNIGHT_CONFIG THEN domainOrName
  ELSE IF \E k \in DOMAIN KNIGHT_CONFIG : KNIGHT_CONFIG[k] = domainOrName
  THEN CHOOSE k \in DOMAIN KNIGHT_CONFIG : KNIGHT_CONFIG[k] = domainOrName
  ELSE Null

\* const windowMs = 30 * 60 * 1000; const intervalMs = windowMs / 5
WindowMs == 30 * 60 * 1000

IntervalMs == WindowMs \div 5

\* now - ts > 60000 is skipped by the busy loop
BusyWindowMs == 60000

\* event.subject.split('.')[2] || '' with the subject held as its segments
DomainOf(e) == IF Len(e.subject) >= 3 THEN e.subject[3] ELSE ""

KnightOf(e) == knightNameForDomain(DomainOf(e))

\* events.filter(e => now - ts <= windowMs)
Windowed(evts, now) == SelectSeq(evts, LAMBDA e : now - e.ts <= WindowMs)

\* Math.min(4, Math.floor((now - ts) / intervalMs))
BucketOf(e, now) == Min(4, (now - e.ts) \div IntervalMs)

Num(v) == [k |-> "num", v |-> v]

NaN == [k |-> "NaN", v |-> 0]

Hole == [k |-> "hole", v |-> 0]

\* sparkline[idx]++ on an array that starts as [0, 0, 0, 0, 0]: an index past
\* the end reads undefined, stores NaN and leaves holes before it
RECURSIVE Bump(_, _)
Bump(line, idx) ==
  IF idx + 1 <= Len(line)
  THEN [line EXCEPT ![idx + 1] = IF @.k = "num" THEN Num(@.v + 1) ELSE NaN]
  ELSE IF idx = Len(line) THEN Append(line, NaN)
       ELSE Bump(Append(line, Hole), idx)

\* the result events of a knight in the window, in buffer order
ResultsOf(evts, now, name) ==
  SelectSeq(Windowed(evts, now), LAMBDA e : e.type = "result" /\ KnightOf(e) = name)

RECURSIVE Counted(_, _, _)
Counted(line, res, now) ==
  IF Len(res) = 0 THEN line
  ELSE Counted(Bump(line, 4 - BucketOf(Head(res), now)), Tail(res), now)

RECURSIVE MaxNum(_)
MaxNum(line) ==
  IF Len(line) = 0 THEN 1
  ELSE LET m == MaxNum(Tail(line)) IN IF Head(line).v >= m THEN Head(line).v ELSE m

\* const max = Math.max(1, ...a.sparkline); a.sparkline.map(v => v / max):
\* a quotient is held as [k |-> "num", v |-> count, of |-> max]
Normalized(line) ==
  IF \E i \in DOMAIN line : line[i].k # "num"
  THEN [i \in DOMAIN line |-> IF line[i].k = "hole" THEN Hole ELSE NaN]
  ELSE [i \in DOMAIN line |-> [k |-> "num", v |-> line[i].v, of |-> MaxNum(line)]]

\* lastActive: the largest timestamp of the knight's results (0 for null)
RECURSIVE LatestTs(_)
LatestTs(res) ==
  IF Len(res) = 0 THEN 0
  ELSE LET m == LatestTs(Tail(res)) IN IF Head(res).ts > m THEN Head(res).ts ELSE m

\* events.some(e => e.type === 'result' && knight of e === name && ts(e) > ts)
HasResultAfter(evts, name, ts) ==
  \E i \in DOMAIN evts :
    /\ evts[i].type = "result"
    /\ KnightOf(evts[i]) = name
    /\ evts[i].ts > ts

\* the busy loop over the windowed events
BusyOf(evts, now, name) ==
  \E i \in DOMAIN Windowed(evts, now) :
    LET e == Windowed(evts, now)[i]
    IN  /\ e.type = "task"
        /\ KnightOf(e) = name
        /\ ~(now - e.ts > BusyWindowMs)
        /\ ~HasResultAfter(evts, name, e.ts)

KnightActivity(evts, now) ==
  LET seen == {KnightOf(Windowed(evts, now)[i]) : i \in DOMAIN Windowed(evts, now)} \ {Null}
  IN  [name \in seen |->
         [recent |-> Len(ResultsOf(evts, now, name)),
          lastActive |-> LatestTs(ResultsOf(evts, now, name)),
          busy |-> BusyOf(evts, now, name),
          sparkline |-> Normalized(Counted(<<Num(0), Num(0), Num(0), Num(0), Num(0)>>,
                                           ResultsOf(evts, now, name), now))]]

MaxFleetEvents == 3   \* events in the buffer handed to the page

\* Date.now() at the memo's run
FleetNow == 2 * WindowMs

FleetEvent(type, domain, id, age) ==
  [type |-> type,
   subject |-> <<"fleet-a", IF type = "task" THEN "tasks" ELSE "results", domain, id>>,
   ts |-> FleetNow - age]

FleetPool ==
  {FleetEvent(t, "security", id, age) :
     t \in {"task", "result"}, id \in {"t1", "t2"}, age \in {10000, 20000, 70000}}
  \cup {FleetEvent("task", "research", "t1", 10000),
        FleetEvent("result", "research", "t1", 20000),
        FleetEvent("result", "galahad", "t1", 15000),
        FleetEvent("task", "nosuch", "t1", 10000),
        FleetEvent("result", "security", "t1", 0 - 1000),
        FleetEvent("result", "security", "t1", IntervalMs + 40000),
        FleetEvent("result", "security", "t1", WindowMs),
        FleetEvent("result", "security", "t1", WindowMs + 1)}

FleetBuffers == UNION {[1..n -> FleetPool] : n \in 0..MaxFleetEvents}

NoActivity == [nm \in {} |-> 0]

FleetIdle ==
  /\ fleetEvents = <<>>
  /\ fleetPc = "idle"
  /\ activity = NoActivity

FleetInit ==
  /\ fleetEvents \in FleetBuffers
  /\ fleetPc = "idle"
  /\ activity = NoActivity

\* the page renders: useMemo runs knightActivity on the events
RenderFleet ==
  /\ fleetPc = "idle"
  /\ activity' = KnightActivity(fleetEvents, FleetNow)
  /\ fleetPc' = "done"
  /\ UNCHANGED fleetEvents
  /\ UNCHANGED notFleet

NextFleet == RenderFleet

(***************************************************************************)
(* The two dispatch paths of the backend: POST /api/tasks/dispatch and the *)
(* 'dispatch' command read from a WebSocket client. Strings are held as    *)
(* sequences of characters; a task text as its length in characters and in *)
(* bytes.                                                                  *)
(***************************************************************************)
Letters ==
  {"a", "b", "c", "d", "e", "f", "g", "h", "i", "j", "k", "l", "m", "n", "o",
   "p", "q", "r", "s", "t", "u", "v", "w", "x", "y", "z",
   "A", "B", "C", "D", "E", "F", "G", "H", "I", "J", "K", "L", "M", "N", "O",
   "P", "Q", "R", "S", "T", "U", "V", "W", "X", "Y", "Z"}

Digits == {"0", "1", "2", "3", "4", "5", "6", "7", "8", "9"}

\* the {0,62} of validKnightName
NAME_TAIL_MAX == 62

\* the largest len(req.Task) accepted
TASK_MAX == 10000

\* variant: the pattern without its end anchor
validKnightNamePrefix(str) == Len(str) >= 1 /\ str[1] \in Letters

\* validKnightName.MatchString(s): ^[a-zA-Z][a-zA-Z0-9-]{0,62}$
validKnightName(str) ==
  /\ Len(str) >= 1
  /\ str[1] \in Letters
  /\ Len(str) - 1 <= NAME_TAIL_MAX
  /\ \A i \in 2..Len(str) : str[i] \in Letters \cup Digits \cup {"-"}

\* len(req.Task) == 0 || len(req.Task) > 10000, len being the byte length
TaskLenBad(task) == task.bytes = 0 \/ task.bytes > TASK_MAX

Repeat(c, n) == [i \in 1..n |-> c]

BadNames ==
  {<<>>, <<".", ".", "/", "e", "t", "c">>, Repeat("a", NAME_TAIL_MAX + 2),
   <<"9", "a">>, <<"a", ".", "b">>, <<"k", "a", "y", "\n">>}

\* (knight, domain) pairs of the requests: both valid, one of them invalid
ShortPair == <<<<"k", "a", "y">>, <<"r", "-", "1">>>>

LongPair == <<Repeat("a", NAME_TAIL_MAX + 1), <<"k", "a", "y">>>>

BadPairs ==
  {<<b, <<"k", "a", "y">>>> : b \in BadNames}
    \cup {<<<<"k", "a", "y">>, b>> : b \in BadNames}

OneByte == [chars |-> 1, bytes |-> 1]

TaskTexts ==
  {[chars |-> 0, bytes |-> 0], OneByte,
   [chars |-> TASK_MAX, bytes |-> TASK_MAX],
   [chars |-> TASK_MAX + 1, bytes |-> TASK_MAX + 1],
   [chars |-> TASK_MAX \div 2, bytes |-> TASK_MAX + 2]}

DispatchOf(np, t) ==
  [json |-> TRUE, action |-> "dispatch", knight |-> np[1], domain |-> np[2], task |-> t]

\* a request body or WebSocket frame: not JSON, or the decoded fields
Requests ==
  {[json |-> FALSE, action |-> "", knight |-> <<>>, domain |-> <<>>,
    task |-> [chars |-> 0, bytes |-> 0]]}
  \cup {DispatchOf(ShortPair, t) : t \in TaskTexts}
  \cup {DispatchOf(LongPair, OneByte)}
  \cup {DispatchOf(np, OneByte) : np \in BadPairs}
  \cup {[json |-> TRUE, action |-> "subscribe", knight |-> <<"k", "a", "y">>,
         domain |-> <<"k", "a", "y">>, task |-> OneByte]}

\* fmt.Sprintf("%s-ui-%d", knight, ms) and "%s-ws-%d"
TaskID(knight, via, ms) == [knight |-> knight, via |-> via, ms |-> ms]

\* fmt.Sprintf("fleet-a.tasks.%s.%s", domain, taskID), as its segments
SubjectFor(domain, taskID) == <<"fleet-a", "tasks", domain, taskID>>

HttpPayload(req, taskID) ==
  [from |-> "ui", task_id |-> taskID, domain |-> req.domain, task |-> req.task]

WsPayload(cmd, taskID) ==
  [from |-> "dashboard-ws", task_id |-> taskID, domain |-> cmd.domain, task |-> cmd.task]

Published(subject, payload) == [subject |-> subject, payload |-> payload]

Answer(path, req, status) == [path |-> path, req |-> req, status |-> status]

MaxBus == 1     \* messages published in one run
MaxClock == 1   \* milliseconds the clock advances in one run

DispInit ==
  /\ bus = <<>>
  /\ clockMs = 0
  /\ dispLast = Answer("none", CHOOSE r \in Requests : ~r.json, 0)

\* what taskDispatchHandler answers: 400, 500 or 200
HttpStatus(req, pubOk) ==
  IF ~req.json THEN 400
  ELSE IF ~validKnightName(req.knight) \/ ~validKnightName(req.domain) THEN 400
  ELSE IF TaskLenBad(req.task) THEN 400
  ELSE IF ~pubOk THEN 500
  ELSE 200

\* taskDispatchHandler: the body, and whether nc.Publish succeeds
HttpDispatch(req, pubOk) ==
  /\ bus' = IF HttpStatus(req, pubOk) = 200
            THEN Append(bus, Published(SubjectFor(req.domain, TaskID(req.knight, "ui", clockMs)),
                                       HttpPayload(req, TaskID(req.knight, "ui", clockMs))))
            ELSE bus
  /\ dispLast' = Answer("http", req, HttpStatus(req, pubOk))
  /\ UNCHANGED clockMs
  /\ UNCHANGED notDisp

\* whether the read loop of wsHandler reaches nc.Publish for a frame
WsAccepts(cmd) ==
  /\ cmd.json /\ cmd.action = "dispatch"
  /\ ~(~validKnightName(cmd.knight) \/ ~validKnightName(cmd.domain))
  /\ ~TaskLenBad(cmd.task)

\* one turn of the read loop of wsHandler; the error of nc.Publish is dropped
WsCommand(cmd, pubOk) ==
  /\ bus' = IF WsAccepts(cmd) /\ pubOk
            THEN Append(bus, Published(SubjectFor(cmd.domain, TaskID(cmd.knight, "ws", clockMs)),
                                       WsPayload(cmd, TaskID(cmd.knight, "ws", clockMs))))
            ELSE bus
  /\ dispLast' = Answer("ws", cmd, 0)
  /\ UNCHANGED clockMs
  /\ UNCHANGED notDisp

\* the wall clock advances
ClockTick ==
  /\ clockMs' = clockMs + 1
  /\ UNCHANGED <<bus, dispLast>>
  /\ UNCHANGED notDisp

NextDispatch ==
  \/ \E req \in Requests, pubOk \in BOOLEAN :
       (Len(bus) < MaxBus \/ HttpStatus(req, pubOk) # 200) /\ HttpDispatch(req, pubOk)
  \/ \E cmd \in Requests, pubOk \in BOOLEAN :
       (Len(bus) < MaxBus \/ ~(WsAccepts(cmd) /\ pubOk)) /\ WsCommand(cmd, pubOk)
  \/ clockMs < MaxClock /\ ClockTick

(***************************************************************************)
(* wsHandler: the three goroutines that write to one client connection.    *)
(* The NATS client runs the callback of a subscription on that             *)
(* subscription's own goroutine, one message at a time.                    *)
(***************************************************************************)
Writers == {"task", "result", "ping"}

Callbacks == {"task", "result"}

MaxWire == 3   \* calls of conn.WriteMessage in one run
MaxRecv == 2   \* bus messages handed to one subscription in one run

\* variant: a lock that never blocks
LockNeverBlocks(mu) == TRUE

\* writeMu.Lock() returns only when no goroutine holds the mutex
LockFree(mu) == mu = "free"

\* websocket.TextMessage for the callbacks, websocket.PingMessage for the ticker
FrameKind(p) == IF p = "ping" THEN "ping" ELSE "text"

\* writers that entered and have not yet called conn.WriteMessage
Entering == {p \in Writers : connPc[p] \in {"lock", "deadline", "write"}}

\* upgrader.Upgrade returned the connection; nothing else has run
ConnIdle ==
  /\ handlerPc = "upgraded"
  /\ subs = [p \in Callbacks |-> "none"]
  /\ recvd = [p \in Callbacks |-> 0]
  /\ cur = [p \in Callbacks |-> 0]
  /\ connPc = [p \in Writers |-> IF p = "ping" THEN "unborn" ELSE "idle"]
  /\ writeMu = "free"
  /\ doneClosed = FALSE
  /\ connClosed = FALSE
  /\ ticker = "none"
  /\ pingErr = FALSE
  /\ wire = <<>>
  /\ clientRead = 0
  /\ clientEvents = <<>>

\* nc.Subscribe("fleet-a.tasks.>", ...); on err conn.Close() and return
SubscribeTask(ok) ==
  /\ handlerPc = "upgraded"
  /\ subs' = IF ok THEN [subs EXCEPT !["task"] = "active"] ELSE subs
  /\ connClosed' = ~ok
  /\ handlerPc' = IF ok THEN "taskSub" ELSE "returned"
  /\ UNCHANGED <<recvd, cur, connPc, writeMu, doneClosed, ticker, pingErr, wire,
                 clientRead, clientEvents>>
  /\ UNCHANGED notConn

\* nc.Subscribe("fleet-a.results.>", ...); on err taskSub.Unsubscribe(),
\* conn.Close() and return
SubscribeResult(ok) ==
  /\ handlerPc = "taskSub"
  /\ subs' = IF ok THEN [subs EXCEPT !["result"] = "active"]
                   ELSE [subs EXCEPT !["task"] = "unsubscribed"]
  /\ connClosed' = ~ok
  /\ handlerPc' = IF ok THEN "resultSub" ELSE "returned"
  /\ UNCHANGED <<recvd, cur, connPc, writeMu, doneClosed, ticker, pingErr, wire,
                 clientRead, clientEvents>>
  /\ UNCHANGED notConn

\* the deferred cleanup is registered, time.NewTicker, go func() {...}()
StartPing ==
  /\ handlerPc = "resultSub"
  /\ handlerPc' = "loop"
  /\ ticker' = "running"
  /\ connPc' = [connPc EXCEPT !["ping"] = "idle"]
  /\ UNCHANGED <<subs, recvd, cur, writeMu, doneClosed, connClosed, pingErr, wire,
                 clientRead, clientEvents>>
  /\ UNCHANGED notConn

\* the bus hands the next message of a subscription to its callback:
\* select on done, then safeWrite
CallbackRun(p) ==
  /\ p \in Callbacks
  /\ subs[p] = "active"
  /\ connPc[p] = "idle"
  /\ recvd' = [recvd EXCEPT ![p] = @ + 1]
  /\ IF doneClosed
       THEN UNCHANGED <<connPc, cur>>
       ELSE /\ connPc' = [connPc EXCEPT ![p] = "lock"]
            /\ cur' = [cur EXCEPT ![p] = recvd[p] + 1]
  /\ UNCHANGED <<handlerPc, subs, writeMu, doneClosed, connClosed, ticker, pingErr,
                 wire, clientRead, clientEvents>>
  /\ UNCHANGED notConn

\* the ping goroutine's select: done closed returns, a tick goes on to write;
\* a stopped ticker may still hold the one tick its channel buffers
PingSelect(tick) ==
  /\ connPc["ping"] = "idle"
  /\ IF tick THEN ticker \in {"running", "buffered"} ELSE doneClosed
  /\ connPc' = [connPc EXCEPT !["ping"] = IF tick THEN "lock" ELSE "gone"]
  /\ ticker' = IF tick /\ ticker = "buffered" THEN "stopped" ELSE ticker
  /\ UNCHANGED <<handlerPc, subs, recvd, cur, writeMu, doneClosed, connClosed,
                 pingErr, wire, clientRead, clientEvents>>
  /\ UNCHANGED notConn

\* writeMu.Lock()
Lock(p) ==
  /\ connPc[p] = "lock"
  /\ LockFree(writeMu)
  /\ writeMu' = p
  /\ connPc' = [connPc EXCEPT ![p] = "deadline"]
  /\ UNCHANGED <<handlerPc, subs, recvd, cur, doneClosed, connClosed, ticker,
                 pingErr, wire, clientRead, clientEvents>>
  /\ UNCHANGED notConn

\* conn.SetWriteDeadline(...)
SetWriteDeadline(p) ==
  /\ connPc[p] = "deadline"
  /\ connPc' = [connPc EXCEPT ![p] = "write"]
  /\ UNCHANGED <<handlerPc, subs, recvd, cur, writeMu, doneClosed, connClosed,
                 ticker, pingErr, wire, clientRead, clientEvents>>
  /\ UNCHANGED notConn

\* conn.WriteMessage(kind, data) returns, with or without an error; on a
\* closed connection it returns an error
WriteMessage(p, failed) ==
  /\ connPc[p] = "write"
  /\ connClosed => failed
  /\ wire' = Append(wire, [by |-> p, kind |-> FrameKind(p),
                           n |-> IF p = "ping" THEN 0 ELSE cur[p],
                           err |-> failed])
  /\ pingErr' = IF p = "ping" THEN failed ELSE pingErr
  /\ connPc' = [connPc EXCEPT ![p] = "unlock"]
  /\ UNCHANGED <<handlerPc, subs, recvd, cur, writeMu, doneClosed, connClosed,
                 ticker, clientRead, clientEvents>>
  /\ UNCHANGED notConn

\* writeMu.Unlock(): deferred in safeWrite; the ping goroutine returns on err
Unlock(p) ==
  /\ connPc[p] = "unlock"
  /\ writeMu' = "free"
  /\ connPc' = [connPc EXCEPT ![p] = IF p = "ping" /\ pingErr THEN "gone" ELSE "idle"]
  /\ UNCHANGED <<handlerPc, subs, recvd, cur, doneClosed, connClosed, ticker,
                 pingErr, wire, clientRead, clientEvents>>
  /\ UNCHANGED notConn

\* conn.ReadMessage fails and the read loop ends: the deferred ticker.Stop()
\* runs, then the deferred cleanup closes done
HandlerExit(buffered) ==
  /\ handlerPc = "loop"
  /\ ticker' = IF buffered THEN "buffered" ELSE "stopped"
  /\ doneClosed' = TRUE
  /\ handlerPc' = "unsubTask"
  /\ UNCHANGED <<subs, recvd, cur, connPc, writeMu, connClosed, pingErr, wire,
                 clientRead, clientEvents>>
  /\ UNCHANGED notConn

\* the deferred cleanup: taskSub.Unsubscribe(), then resultSub.Unsubscribe()
Unsubscribe(p) ==
  /\ p \in Callbacks
  /\ handlerPc = IF p = "task" THEN "unsubTask" ELSE "unsubResult"
  /\ subs' = [subs EXCEPT ![p] = "unsubscribed"]
  /\ handlerPc' = IF p = "task" THEN "unsubResult" ELSE "close"
  /\ UNCHANGED <<recvd, cur, connPc, writeMu, doneClosed, connClosed, ticker,
                 pingErr, wire, clientRead, clientEvents>>
  /\ UNCHANGED notConn

\* variant: the handler returns and leaves the connection open
ConnCloseSkipped ==
  /\ handlerPc = "close"
  /\ handlerPc' = "returned"
  /\ UNCHANGED <<subs, recvd, cur, connPc, writeMu, doneClosed, connClosed, ticker,
                 pingErr, wire, clientRead, clientEvents>>
  /\ UNCHANGED notConn

\* the deferred cleanup: conn.Close(), and the handler returns
ConnClose ==
  /\ handlerPc = "close"
  /\ connClosed' = TRUE
  /\ handlerPc' = "returned"
  /\ UNCHANGED <<subs, recvd, cur, connPc, writeMu, doneClosed, ticker, pingErr,
                 wire, clientRead, clientEvents>>
  /\ UNCHANGED notConn

\* the event of a text frame, as ws.onmessage parses it
WireEvent(frame) == [src |-> frame.by, n |-> frame.n, shape |-> "event"]

\* the browser takes the next frame off the connection; a text frame runs
\* ws.onmessage, a ping frame is answered by the browser itself
ClientReceive ==
  /\ clientRead < Len(wire)
  /\ clientRead' = clientRead + 1
  /\ LET frame == wire[clientRead + 1]
     IN  clientEvents' = IF frame.kind = "text" /\ ~frame.err
                           THEN PrependCapped(WireEvent(frame), clientEvents)
                           ELSE clientEvents
  /\ UNCHANGED <<handlerPc, subs, recvd, cur, connPc, writeMu, doneClosed,
                 connClosed, ticker, pingErr, wire>>
  /\ UNCHANGED notConn

NextConn ==
  \/ \E ok \in BOOLEAN : SubscribeTask(ok)
  \/ \E ok \in BOOLEAN : SubscribeResult(ok)
  \/ StartPing
  \/ \E p \in Callbacks :
       /\ recvd[p] < MaxRecv
       /\ Len(wire) + Cardinality(Entering) < MaxWire
       /\ CallbackRun(p)
  \/ \E tick \in BOOLEAN :
       (~tick \/ Len(wire) + Cardinality(Entering) < MaxWire) /\ PingSelect(tick)
  \/ \E p \in Writers : Lock(p)
  \/ \E p \in Writers : SetWriteDeadline(p)
  \/ \E p \in Writers, failed \in BOOLEAN : WriteMessage(p, failed)
  \/ \E p \in Writers : Unlock(p)
  \/ \E buffered \in BOOLEAN : HandlerExit(buffered)
  \/ \E p \in Callbacks : Unsubscribe(p)
  \/ ConnClose
  \/ ClientReceive

(***************************************************************************)
(* FleetGraph: the activity memo. heat is held in tenths (heat * 10), so   *)
(* recentTasks / 10 is recentTasks tenths and 0.5 is 5 tenths.             *)
(***************************************************************************)
\* Object.keys(KNIGHT_CONFIG)
KNIGHT_NAMES == DOMAIN KNIGHT_CONFIG

\* (data.task_id as string) || '' of the parsed event.data
TaskIdOf(e) == e.task_id

\* one turn of the loop over events on the pendingTasks of a knight
PendingStep(pend, e, name) ==
  IF KnightOf(e) # name THEN pend
  ELSE IF e.type = "task"
       THEN IF TaskIdOf(e) # "" THEN pend \cup {TaskIdOf(e)} ELSE pend
       ELSE IF TaskIdOf(e) # "" THEN pend \ {TaskIdOf(e)} ELSE pend

\* pendingTasks of a knight after the loop, from the first entry on
RECURSIVE PendingTasks(_, _, _)
PendingTasks(evts, name, pend) ==
  IF evts = <<>> THEN pend
  ELSE PendingTasks(Tail(evts), name, PendingStep(pend, Head(evts), name))

\* recentTasks of a knight after the loop
RecentTasksOf(evts, name) ==
  Cardinality({i \in DOMAIN evts : KnightOf(evts[i]) = name /\ evts[i].type = "task"})

Max(a, b) == IF a >= b THEN a ELSE b

\* variant: recentTasks / 10 without Math.min(..., 1)
HeatUncapped(recent, busy) == IF busy THEN Max(recent, 5) ELSE recent

\* Math.min(recentTasks / 10, 1), then Math.max(heat, 0.5) when busy: tenths
HeatOf(recent, busy) ==
  IF busy THEN Max(Min(recent, 10), 5) ELSE Min(recent, 10)

GraphActivity(evts) ==
  [name \in KNIGHT_NAMES |->
     LET pend == PendingTasks(evts, name, {})
         recent == RecentTasksOf(evts, name)
     IN  [recentTasks |-> recent,
          pendingTasks |-> pend,
          busy |-> Cardinality(pend) > 0,
          heat |-> HeatOf(recent, Cardinality(pend) > 0)]]

MaxGraphEvents == 3   \* newest entries of the events prop, any of the pool
MaxBurst == 11        \* older Task events of one knight behind them

GraphEvent(type, domain, id) ==
  [type |-> type,
   subject |-> <<"fleet-a", IF type = "task" THEN "tasks" ELSE "results", domain, id>>,
   task_id |-> id]

GraphPool ==
  {GraphEvent(t, "security", id) : t \in {"task", "result"}, id \in {"t1", "t2", ""}}
  \cup {GraphEvent("task", "research", "t1"), GraphEvent("result", "research", "t1"),
        GraphEvent("result", "galahad", "t1"), GraphEvent("task", "nosuch", "t1")}

\* n Task events of galahad whose data carries no task_id
Burst(n) == [i \in 1..n |-> GraphEvent("task", "security", "")]

GraphIdle ==
  /\ graphEvents = <<>>
  /\ graphPc = "idle"
  /\ graphAct = NoActivity

GraphInit ==
  /\ \E n \in 0..MaxGraphEvents, b \in 0..MaxBurst :
       \E f \in [1..n -> GraphPool] : graphEvents = f \o Burst(b)
  /\ graphPc = "idle"
  /\ graphAct = NoActivity

\* the component renders: useMemo computes activity from events
RenderGraph ==
  /\ graphPc = "idle"
  /\ graphAct' = GraphActivity(graphEvents)
  /\ graphPc' = "done"
  /\ UNCHANGED graphEvents
  /\ UNCHANGED notGraph

NextGraph == RenderGraph

(***************************************************************************)
(* FleetGraph: what a change of the events prop recomputes. The activity   *)
(* memo and the node effect run in the render that gets the new prop; the  *)
(* edge effect clears its timeout and sets one of 300 ms.                  *)
(***************************************************************************)
EDGE_DEBOUNCE_MS == 300

TickMs == 100         \* the grain of the clock
MaxChanges == 3       \* changes of the events prop in one run
MaxDebClock == 900    \* the clock stops here

\* clearTimeout(id): the pending timeout of that id, if any, is dropped
ClearEdgeTimer(tms, ref) == {t \in tms : t.id # ref}

DebIdle ==
  /\ debPc = "new"
  /\ debVersion = 0
  /\ debClock = 0
  /\ changeAt = <<>>
  /\ edgeTimerRef = 0
  /\ debTimers = {}
  /\ debSeq = 0
  /\ actRuns = <<>>
  /\ edgeRuns = <<>>

\* a render with the events prop v: useMemo(activity), the node effect, and
\* the edge effect (its cleanup first, when it ran before)
RenderWith(v) ==
  /\ actRuns' = Append(actRuns, v)
  /\ changeAt' = Append(changeAt, debClock)
  /\ debSeq' = debSeq + 1
  /\ edgeTimerRef' = debSeq + 1
  /\ debTimers' = ClearEdgeTimer(debTimers, edgeTimerRef)
                    \cup {[id |-> debSeq + 1, due |-> debClock + EDGE_DEBOUNCE_MS,
                           version |-> v]}

\* the first render
GraphMount ==
  /\ debPc = "new"
  /\ debPc' = "mounted"
  /\ RenderWith(debVersion)
  /\ UNCHANGED <<debVersion, debClock, edgeRuns>>
  /\ UNCHANGED notDeb

\* the parent hands over a new events array
EventsChange ==
  /\ debPc = "mounted"
  /\ debVersion' = debVersion + 1
  /\ RenderWith(debVersion + 1)
  /\ UNCHANGED <<debPc, debClock, edgeRuns>>
  /\ UNCHANGED notDeb

\* a pending timeout is due: buildEdges(KNIGHT_NAMES, events); setEdges
EdgeTimerFire(t) ==
  /\ t \in debTimers
  /\ t.due <= debClock
  /\ debTimers' = debTimers \ {t}
  /\ edgeRuns' = Append(edgeRuns, [version |-> t.version, at |-> debClock])
  /\ UNCHANGED <<debPc, debVersion, debClock, changeAt, edgeTimerRef, debSeq, actRuns>>
  /\ UNCHANGED notDeb

\* the component is unmounted: the cleanup of the edge effect
GraphUnmount ==
  /\ debPc = "mounted"
  /\ debPc' = "unmounted"
  /\ debTimers' = ClearEdgeTimer(debTimers, edgeTimerRef)
  /\ UNCHANGED <<debVersion, debClock, changeAt, edgeTimerRef, debSeq, actRuns, edgeRuns>>
  /\ UNCHANGED notDeb

\* time passes, once every timeout that is due has run
DebTick ==
  /\ \A t \in debTimers : t.due > debClock
  /\ debClock' = debClock + TickMs
  /\ UNCHANGED <<debPc, debVersion, changeAt, edgeTimerRef, debTimers, debSeq,
                 actRuns, edgeRuns>>
  /\ UNCHANGED notDeb

NextDeb ==
  \/ GraphMount
  \/ debVersion < MaxChanges /\ EventsChange
  \/ \E t \in debTimers : EdgeTimerFire(t)
  \/ GraphUnmount
  \/ debClock < MaxDebClock /\ DebTick

(***************************************************************************)
(* parseChainResource: the steps of a ChainSummary from spec.steps and     *)
(* status.steps of the unstructured Chain object. A JSON value that is not *)
(* of the type the code asserts is an entry with isMap / isStr FALSE; a    *)
(* string held as "" is the missing or non-string field of getStr; a       *)
(* result is held as its length in bytes.                                  *)
(***************************************************************************)
RESULT_MAX == 500

MaxSpecSteps == 2     \* entries of spec.steps
MaxStatusSteps == 2   \* entries of status.steps

Str(v) == [isStr |-> TRUE, v |-> v]

NotStr == [isStr |-> FALSE, v |-> ""]

SpecStep(name, knight, domain, deps) ==
  [isMap |-> TRUE, name |-> name, knight |-> knight, domain |-> domain,
   dependsOn |-> deps]

NotAStep == [isMap |-> FALSE]

StatusStep(name, phase, retry, start, completion, resultLen) ==
  [isMap |-> TRUE, name |-> name, phase |-> phase, retryCount |-> retry,
   startTime |-> start, completionTime |-> completion, result |-> resultLen]

SpecPool ==
  {SpecStep("a", "galahad", "security", <<>>),
   SpecStep("b", "kay", "research", <<Str("a")>>),
   SpecStep("b", "tristan", "infra", <<Str("a"), NotStr>>),
   SpecStep("c", "kay", "research", <<Str("zz")>>),
   NotAStep}

StatusPool ==
  {StatusStep("a", "Succeeded", 0, "t0", "t1", RESULT_MAX + 1),
   StatusStep("b", "Running", 2, "t1", "", 0),
   StatusStep("x", "Failed", 1, "", "", RESULT_MAX),
   NotAStep}

\* for _, d := range deps { if ds, ok := d.(string); ok { append } }
StringsOf(deps) ==
  LET strs == SelectSeq(deps, LAMBDA d : d.isStr)
  IN  [i \in DOMAIN strs |-> strs[i].v]

\* specStepMap[name] after the loop over specSteps: the last map entry of
\* that name
InSpecStepMap(spec, name) ==
  \E i \in DOMAIN spec : spec[i].isMap /\ spec[i].name = name

SpecStepMapGet(spec, name) ==
  LET at == CHOOSE i \in DOMAIN spec :
                /\ spec[i].isMap /\ spec[i].name = name
                /\ \A j \in DOMAIN spec :
                     (spec[j].isMap /\ spec[j].name = name) => j <= i
  IN  spec[at]

\* a *string: nil for "", else the string
PtrOf(str) == IF str = "" THEN Null ELSE str

\* step.Result: nil, the result, or its first 500 bytes and "..."
ResultOf(len) ==
  IF len = 0 THEN Null
  ELSE IF len > RESULT_MAX THEN [bytes |-> RESULT_MAX + 3, truncated |-> TRUE]
  ELSE [bytes |-> len, truncated |-> FALSE]

\* the StepSummary of one status step, merged with the spec step of its name
FromStatus(spec, sm) ==
  [name |-> sm.name,
   phase |-> sm.phase,
   retryCount |-> sm.retryCount,
   startTime |-> PtrOf(sm.startTime),
   completionTime |-> PtrOf(sm.completionTime),
   result |-> ResultOf(sm.result),
   knight |-> IF InSpecStepMap(spec, sm.name)
              THEN SpecStepMapGet(spec, sm.name).knight ELSE "",
   domain |-> IF InSpecStepMap(spec, sm.name)
              THEN SpecStepMapGet(spec, sm.name).domain ELSE "",
   dependsOn |-> IF InSpecStepMap(spec, sm.name)
                 THEN StringsOf(SpecStepMapGet(spec, sm.name).dependsOn) ELSE <<>>]

\* the StepSummary of one spec step when the status has none
FromSpec(sm) ==
  [name |-> sm.name,
   phase |-> "Pending",
   retryCount |-> 0,
   startTime |-> Null,
   completionTime |-> Null,
   result |-> Null,
   knight |-> sm.knight,
   domain |-> sm.domain,
   dependsOn |-> StringsOf(sm.dependsOn)]

\* the entries of a list that are JSON objects
MapsOf(list) == SelectSeq(list, LAMBDA e : e.isMap)

\* variant: the spec steps are appended whatever the status gave
FallbackAlways(stepsSoFar) == TRUE

\* len(chain.Steps) == 0
FallbackNeeded(stepsSoFar) == Len(stepsSoFar) = 0

ParseSteps(spec, status) ==
  LET fromStatus == [i \in DOMAIN MapsOf(status) |-> FromStatus(spec, MapsOf(status)[i])]
      fromSpec == [i \in DOMAIN MapsOf(spec) |-> FromSpec(MapsOf(spec)[i])]
  IN  IF FallbackNeeded(fromStatus) THEN fromStatus \o fromSpec ELSE fromStatus

ChainIdle ==
  /\ chainSpec = <<>>
  /\ chainStatus = <<>>
  /\ chainPc = "idle"
  /\ chainSteps = <<>>

ChainInit ==
  /\ \E n \in 0..MaxSpecSteps : \E f \in [1..n -> SpecPool] : chainSpec = f
  /\ \E n \in 0..MaxStatusSteps : \E f \in [1..n -> StatusPool] : chainStatus = f
  /\ chainPc = "idle"
  /\ chainSteps = <<>>

\* chainsHandler / chainDetailHandler map one Chain object
ParseChain ==
  /\ chainPc = "idle"
  /\ chainSteps' = ParseSteps(chainSpec, chainStatus)
  /\ chainPc' = "done"
  /\ UNCHANGED <<chainSpec, chainStatus>>
  /\ UNCHANGED notChain

NextChain == ParseChain

(***************************************************************************)
(* StepDAG: the node drawn for one step. The label under the step's name   *)
(* is held as the phase and whether " (retry n)" follows it.               *)
(***************************************************************************)
NodePhases == {"Pending", "Running", "Completed", "Failed", "Skipped", ""}

NodeNames == {"a", "b"}

NodeKnights == {"galahad", "nobody"}

MaxRetry == 2   \* retryCount of a step

\* variant: the run's currentStep is not looked at
IsRunningByPhase(step, currentStep) == step.phase = "Running"

\* const isRunning = step.phase === 'Running' || step.name === currentStep
IsRunning(step, currentStep) == step.phase = "Running" \/ step.name = currentStep

\* const borderColor = ...
BorderColor(step, currentStep) ==
  IF step.phase = "Completed" THEN "#22c55e"
  ELSE IF step.phase = "Failed" THEN "#ef4444"
  ELSE IF IsRunning(step, currentStep) THEN "#3b82f6"
  ELSE "#4b5563"

\* {step.phase}{step.retryCount > 0 ? ` (retry ${step.retryCount})` : ''}
PhaseLabel(step) ==
  [phase |-> step.phase,
   retry |-> IF step.retryCount > 0 THEN step.retryCount ELSE 0]

NodeIdle ==
  /\ nodeStep = [name |-> "a", knight |-> "galahad", phase |-> "Pending", retryCount |-> 0]
  /\ nodeCurrent = ""
  /\ nodePc = "idle"
  /\ nodeView = << >>

NodeInit ==
  /\ nodeStep \in [name : NodeNames, knight : NodeKnights, phase : NodePhases,
                   retryCount : 0..MaxRetry]
  /\ nodeCurrent \in NodeNames \cup {""}
  /\ nodePc = "idle"
  /\ nodeView = << >>

\* the <g> of one step in the Nodes part of StepDAG
RenderNode ==
  /\ nodePc = "idle"
  /\ nodeView' = [pulse |-> IsRunning(nodeStep, nodeCurrent),
                  border |-> BorderColor(nodeStep, nodeCurrent),
                  label |-> PhaseLabel(nodeStep)]
  /\ nodePc' = "done"
  /\ UNCHANGED <<nodeStep, nodeCurrent>>
  /\ UNCHANGED notNode

NextNode == RenderNode

(***************************************************************************)
(* The domain each consumer of the event stream takes from one event:      *)
(* FleetPage.knightActivity, FleetGraph.activity, LivePage's filter and    *)
(* useTaskNotifications. A subject is held as its segments; dataDomain is  *)
(* event.data.domain, "" when the payload has no domain field.             *)
(***************************************************************************)
Consumers == {"fleet", "graph", "live", "notify"}

\* parts[i] || dflt of subject.split('.')
PartOr(subject, i, dflt) ==
  IF Len(subject) > i /\ subject[i + 1] # "" THEN subject[i + 1] ELSE dflt

\* parseSubject(subject) of Live.tsx
parseSubject(subject) ==
  [fleet |-> PartOr(subject, 0, ""), type |-> PartOr(subject, 1, ""),
   domain |-> PartOr(subject, 2, ""), taskId |-> PartOr(subject, 3, "")]

\* const domain = data.domain || parts[1] || 'unknown' of useTaskNotifications
NotifyDomain(e) ==
  IF e.dataDomain # "" THEN e.dataDomain ELSE PartOr(e.subject, 1, "unknown")

\* the domain a consumer takes from event e
DomainSeenBy(c, e) ==
  CASE c = "fleet" -> DomainOf(e)
    [] c = "graph" -> PartOr(e.subject, 2, "")
    [] c = "live" -> parseSubject(e.subject).domain
    [] c = "notify" -> NotifyDomain(e)

DomSubjects ==
  {<<"fleet-a", "results", "security", "123">>,
   <<"fleet-a", "results", "research", "7">>,
   <<"fleet-a", "tasks", "security", "123">>,
   <<"fleet-a", "results", "">>,
   <<"fleet-a", "results">>,
   <<"fleet-a">>}

DomIdle ==
  /\ domEvent = [type |-> "result", subject |-> <<"fleet-a">>, dataDomain |-> ""]
  /\ domSeen = [c \in Consumers |-> "none"]

DomInit ==
  /\ \E s \in DomSubjects, d \in {"", "security", "infra"} :
       domEvent = [type |-> IF Len(s) > 1 /\ s[2] = "tasks" THEN "task" ELSE "result",
                   subject |-> s, dataDomain |-> d]
  /\ domSeen = [c \in Consumers |-> "none"]

\* consumer c handles the event; useTaskNotifications skips what is not a result
ConsumerReads(c) ==
  /\ domSeen[c] = "none"
  /\ c = "notify" => domEvent.type = "result"
  /\ domSeen' = [domSeen EXCEPT ![c] = DomainSeenBy(c, domEvent)]
  /\ UNCHANGED domEvent
  /\ UNCHANGED notDom

NextDom == \E c \in Consumers : ConsumerReads(c)

(***************************************************************************)
(* useTaskNotifications(events, addToast) on the events of the watcher's   *)
(* own useWebSocket. The effect runs after a render whose events array is  *)
(* a new one; renders may take several state updates at once. The event    *)
(* frames of the model are Result events.                                  *)
(***************************************************************************)
MaxBatch == 2   \* state updates one render takes together

\* event.type !== 'result' is skipped
IsResult(e) == e.shape = "event"

\* variant: everything ahead of the entries seen last time
NewEventsByIdentity(evts, seen) == evts

\* const newEvents = events.slice(0, newCount), newCount = events.length - seenCount.current
NewEvents(evts, seen) ==
  IF Len(evts) - seen <= 0 THEN <<>> ELSE Slice0(evts, Len(evts) - seen)

\* the calls of addToast so far and one more for every entry of evts
Toasted(t, evts) ==
  [e \in DOMAIN t \cup {evts[i] : i \in DOMAIN evts} |->
     (IF e \in DOMAIN t THEN t[e] ELSE 0)
       + Cardinality({i \in DOMAIN evts : evts[i] = e})]

NoToasts == [e \in {} |-> 0]

NotifyIdle ==
  /\ seenCount = 0
  /\ effEvents = <<>>
  /\ effRecv = 0
  /\ toasts = NoToasts

\* the effect of useTaskNotifications after a render with a new events array
NotifyEffect ==
  /\ mountedRef
  /\ events # effEvents
  /\ effEvents' = events
  /\ effRecv' = recvCount
  /\ IF Len(events) = 0
     THEN UNCHANGED <<seenCount, toasts>>
     ELSE /\ seenCount' = Len(events)
          /\ toasts' = Toasted(toasts, SelectSeq(NewEvents(events, seenCount), IsResult))
  /\ UNCHANGED notNotify

NextNotify ==
  \/ Mount
  \/ \E s \in DOMAIN sockets : SocketOpen(s)
  \/ \E s \in DOMAIN sockets :
       /\ recvCount < MAX_EVENTS + LiveOverflow
       /\ recvCount - effRecv < MaxBatch
       /\ SocketMessage(s, "event")
  \/ \E n \in {-1} \cup HistLens : FetchSettled(n)
  \/ NotifyEffect

(***************************************************************************)
(* TasksPage.dispatch with the answer of taskDispatchHandler. blank is     *)
(* whether task.trim() is empty. http.Error answers with a text/plain      *)
(* body, the accepted request with a JSON object carrying task_id.         *)
(***************************************************************************)
MaxForm == 2   \* dispatches of the form published in one run

FormTexts ==
  {[chars |-> 0, bytes |-> 0, blank |-> TRUE],
   [chars |-> 1, bytes |-> 1, blank |-> TRUE],
   [chars |-> 1, bytes |-> 1, blank |-> FALSE],
   [chars |-> TASK_MAX + 1, bytes |-> TASK_MAX + 1, blank |-> FALSE]}

\* setTask('')
EmptyText == [chars |-> 0, bytes |-> 0, blank |-> TRUE]

\* body: JSON.stringify({ knight, domain, task })
FormRequest(t) == DispatchOf(ShortPair, [chars |-> t.chars, bytes |-> t.bytes])

\* variant: every answer has a body that parses as JSON
ResJsonAlwaysParses(status) == FALSE

\* await res.json() throws on the text/plain body http.Error writes
ResJsonThrows(status) == status # 200

Went(how, status) == [how |-> how, status |-> status]

FormIdle ==
  /\ formTask = EmptyText
  /\ formResults = <<>>
  /\ formLast = Went("none", 0)

\* the user edits the task text
SetTask(t) ==
  /\ formTask' = t
  /\ UNCHANGED <<formResults, formLast>>
  /\ UNCHANGED <<bus, clockMs, dispLast>>
  /\ UNCHANGED notFormDisp

\* dispatch(): net is whether the request reaches the backend and its
\* answer comes back, pubOk whether nc.Publish succeeds
FormDispatch(net, pubOk) ==
  LET req == FormRequest(formTask)
      status == HttpStatus(req, pubOk)
      taskID == TaskID(req.knight, "ui", clockMs)
  IN  /\ IF formTask.blank
         THEN /\ formLast' = Went("skipped", 0)
              /\ UNCHANGED <<formTask, formResults, bus, dispLast>>
         ELSE IF ~net
         THEN /\ formLast' = Went("neterr", 0)
              /\ UNCHANGED <<formTask, formResults, bus, dispLast>>
         ELSE /\ formLast' = Went("answered", status)
              /\ bus' = IF status = 200
                        THEN Append(bus, Published(SubjectFor(req.domain, taskID),
                                                   HttpPayload(req, taskID)))
                        ELSE bus
              /\ dispLast' = Answer("http", req, status)
              /\ IF ResJsonThrows(status)
                 THEN UNCHANGED <<formTask, formResults>>
                 ELSE /\ formResults' =
                           <<[taskId |-> IF status = 200 THEN taskID ELSE Null,
                              status |-> "dispatched"]>> \o formResults
                      /\ formTask' = EmptyText
      /\ UNCHANGED clockMs
      /\ UNCHANGED notFormDisp

\* the wall clock advances
FormClockTick ==
  /\ clockMs' = clockMs + 1
  /\ UNCHANGED <<bus, dispLast, formTask, formResults, formLast>>
  /\ UNCHANGED notFormDisp

NextForm ==
  \/ \E t \in FormTexts : SetTask(t)
  \/ \E net \in BOOLEAN, pubOk \in BOOLEAN :
       (Len(bus) < MaxForm \/ ~net \/ ~pubOk) /\ FormDispatch(net, pubOk)
  \/ clockMs < MaxClock /\ FormClockTick

Init == WsInit /\ LayIdle /\ FleetIdle /\ DispInit /\ ConnIdle /\ GraphIdle /\ DebIdle /\ ChainIdle
    /\ FormIdle
    /\ NotifyIdle
    /\ DomIdle
    /\ NodeIdle

InitFleet == WsInit /\ LayIdle /\ FleetInit /\ DispInit /\ ConnIdle /\ GraphIdle /\ DebIdle /\ ChainIdle
    /\ FormIdle
    /\ NotifyIdle
    /\ DomIdle
    /\ NodeIdle

SpecFleet == InitFleet /\ [][NextFleet]_vars

SpecDispatch == Init /\ [][NextDispatch]_vars

InitLayout == WsInit /\ LayInit /\ FleetIdle /\ DispInit /\ ConnIdle /\ GraphIdle /\ DebIdle /\ ChainIdle
    /\ FormIdle
    /\ NotifyIdle
    /\ DomIdle
    /\ NodeIdle

SpecConn == Init /\ [][NextConn]_vars

InitGraph == WsInit /\ LayIdle /\ FleetIdle /\ DispInit /\ ConnIdle /\ GraphInit /\ DebIdle /\ ChainIdle
    /\ FormIdle
    /\ NotifyIdle
    /\ DomIdle
    /\ NodeIdle

SpecGraph == InitGraph /\ [][NextGraph]_vars

SpecDeb == Init /\ [][NextDeb]_vars

InitChain ==
  WsInit /\ LayIdle /\ FleetIdle /\ DispInit /\ ConnIdle /\ GraphIdle /\ DebIdle /\ ChainInit
    /\ FormIdle
    /\ NotifyIdle
    /\ DomIdle
    /\ NodeIdle

SpecChain == InitChain /\ [][NextChain]_vars

SpecLayout == InitLayout /\ [][NextLayout]_vars

(***************************************************************************)
(* SpecPair: well-formed dispatches only, up to MaxPublished of them       *)
(* published, on either path and at any millisecond.                       *)
(***************************************************************************)
MaxPublished == 2   \* messages published in one run of the pair machine

PairRequests ==
  {DispatchOf(ShortPair, OneByte),
   DispatchOf(<<<<"g", "a", "w">>, <<"r", "-", "1">>>>, OneByte)}

NextPair ==
  \/ \E req \in PairRequests, pubOk \in BOOLEAN :
       (Len(bus) < MaxPublished \/ ~pubOk) /\ HttpDispatch(req, pubOk)
  \/ \E cmd \in PairRequests, pubOk \in BOOLEAN :
       (Len(bus) < MaxPublished \/ ~pubOk) /\ WsCommand(cmd, pubOk)
  \/ clockMs < MaxClock /\ ClockTick

SpecPair == Init /\ [][NextPair]_vars

(***************************************************************************)
(* SpecConnFair: SpecConn with the Go scheduler running every goroutine    *)
(* that can take a step.                                                   *)
(***************************************************************************)
\* the steps of one writer inside its write
WriterSteps(p) == Lock(p) \/ SetWriteDeadline(p) \/ Unlock(p)
                    \/ \E failed \in BOOLEAN : WriteMessage(p, failed)

\* the steps of the ping goroutine
PingSteps == WriterSteps("ping")
               \/ \E tick \in BOOLEAN :
                    (~tick \/ Len(wire) + Cardinality(Entering) < MaxWire) /\ PingSelect(tick)

\* the steps of the handler's own goroutine once the read loop has ended
CleanupSteps == ConnClose \/ \E p \in Callbacks : Unsubscribe(p)

SpecConnFair ==
  /\ Init /\ [][NextConn]_vars
  /\ WF_vars(PingSteps)
  /\ WF_vars(CleanupSteps)
  /\ \A p \in Callbacks : WF_vars(WriterSteps(p))

(***************************************************************************)
(* SpecNode: one step node drawn for every step and currentStep.           *)
(***************************************************************************)
InitNode ==
  WsInit /\ LayIdle /\ FleetIdle /\ DispInit /\ ConnIdle /\ GraphIdle /\ DebIdle /\ ChainIdle
    /\ FormIdle
    /\ NotifyIdle
    /\ DomIdle
    /\ NodeInit

SpecNode == InitNode /\ [][NextNode]_vars

(***************************************************************************)
(* SpecDom: every consumer reads one event, in any order.                  *)
(***************************************************************************)
InitDom ==
  WsInit /\ LayIdle /\ FleetIdle /\ DispInit /\ ConnIdle /\ GraphIdle /\ DebIdle /\ ChainIdle
    /\ FormIdle
    /\ NotifyIdle
    /\ NodeIdle /\ DomInit

SpecDom == InitDom /\ [][NextDom]_vars

(***************************************************************************)
(* SpecNotify: the watcher, mounted for the life of the page: one          *)
(* connection, its live events, the seed, and the notification effect.     *)
(***************************************************************************)
SpecNotify == Init /\ [][NextNotify]_vars

(***************************************************************************)
(* SpecForm: the dispatch form and the backend answering it.               *)
(***************************************************************************)
SpecForm == Init /\ [][NextForm]_vars

(***************************************************************************)
(* Spec: the connection machine with a small frame budget.                 *)
(***************************************************************************)
Next ==
  \/ Mount
  \/ Unmount
  \/ \E s \in DOMAIN sockets : SocketOpen(s)
  \/ \E s \in DOMAIN sockets, failed \in BOOLEAN : SocketClosed(s, failed)
  \/ \E s \in DOMAIN sockets, f \in Frames :
       recvCount + junkCount < MaxMsgs /\ SocketMessage(s, f)
  \/ \E t \in timers : Len(sockets) < MaxSockets /\ TimerFire(t)
  \/ \E n \in {-1} \cup (0..MaxHist) : FetchSettled(n)
  \/ \E a \in DispatchArgs :
       (Len(outbox) < MaxOutbox \/ ~CanSend(wsRef, sockets)) /\ Dispatch(a)
  \/ clearCount < MaxClears /\ ClearEvents

Spec == Init /\ [][Next]_vars

(***************************************************************************)
(* SpecBuf: one connection, live events up to MAX_EVENTS + LiveOverflow,   *)
(* the seed settling at any point among them.                              *)
(***************************************************************************)
NextBuf ==
  \/ Mount
  \/ Unmount
  \/ \E s \in DOMAIN sockets : SocketOpen(s)
  \/ \E s \in DOMAIN sockets :
       recvCount < MAX_EVENTS + LiveOverflow /\ SocketMessage(s, "event")
  \/ \E n \in {-1} \cup HistLens : FetchSettled(n)

SpecBuf == Init /\ [][NextBuf]_vars

(***************************************************************************)
(* SpecBackoff: opens, closes and timers only, up to MaxAttempts sockets.  *)
(***************************************************************************)
NextBackoff ==
  \/ Mount
  \/ Unmount
  \/ \E s \in DOMAIN sockets : SocketOpen(s)
  \/ \E s \in DOMAIN sockets, failed \in BOOLEAN : SocketClosed(s, failed)
  \/ \E t \in timers : Len(sockets) < MaxAttempts /\ TimerFire(t)

SpecBackoff == Init /\ [][NextBackoff]_vars

(***************************************************************************)
(* SpecRetry: SpecBackoff with the browser running every pending timeout   *)
(* once its delay has passed.                                              *)
(***************************************************************************)
TimersRun == \E t \in timers : Len(sockets) < MaxAttempts /\ TimerFire(t)

SpecRetry == Init /\ [][NextBackoff]_vars /\ WF_vars(TimersRun)

(***************************************************************************)
(* Properties of the event buffer                                          *)
(***************************************************************************)
\* live events received since the buffer was last emptied
LiveCount == recvCount - clearedAt

IsLive(e) == e.src = "live"

\* C1: after every inbound event the buffer holds at most MAX_EVENTS
\* entries; its live entries are exactly the last min(N, MAX_EVENTS) events
\* received, newest first from index 1, and nothing but them when no history
\* was merged; an insert at capacity keeps every entry but the one at the
\* highest index.
C1_BufferInv ==
  LET k == Min(LiveCount, MAX_EVENTS)
  IN  /\ Len(events) <= MAX_EVENTS
      /\ Len(events) >= k
      /\ \A i \in 1..k : IsLive(events[i]) /\ events[i].n = recvCount + 1 - i
      /\ \A i \in (k + 1)..Len(events) : ~IsLive(events[i])
      /\ seeded = <<>> => Len(events) = k

C1_EvictsOldest ==
  (last'.op = "onmessage" /\ events' # events /\ Len(events) = MAX_EVENTS)
    => /\ Len(events') = MAX_EVENTS
       /\ SubSeq(events', 2, MAX_EVENTS) = SubSeq(events, 1, MAX_EVENTS - 1)
       /\ events'[1].n = recvCount'

C1_BoundedNewestFirst == []C1_BufferInv /\ [][C1_EvictsOldest]_vars

C1_Witness ==
  /\ last.op = "onmessage"
  /\ recvCount > MAX_EVENTS
  /\ Len(events) = MAX_EVENTS
  /\ events[MAX_EVENTS].n = recvCount + 1 - MAX_EVENTS

\* C7: whatever the order of the seed and the live events, the buffer is the
\* live events newest first, then the seeded batch in its own order, cut to
\* MAX_EVENTS from the tail (so history goes before any live event goes).
C7_SeedBehindLive ==
  LET k == Min(LiveCount, MAX_EVENTS)
      h == Len(events) - k
  IN  /\ Len(events) = Min(LiveCount + Len(seeded), MAX_EVENTS)
      /\ \A i \in 1..k : IsLive(events[i]) /\ events[i].n = recvCount + 1 - i
      /\ SubSeq(events, k + 1, Len(events)) = SubSeq(seeded, 1, h)
      /\ \A i \in 1..Len(seeded) : ~IsLive(seeded[i])

\* e1 received first, [h1, h2] seeded afterwards: [e1, h1, h2]
C7_Witness ==
  /\ last.op = "seed"
  /\ recvCount = 1
  /\ Len(seeded) = 2
  /\ Len(events) = 3
  /\ IsLive(events[1])
  /\ events[2] = seeded[1] /\ events[3] = seeded[2]

(***************************************************************************)
(* Properties of the reconnect backoff                                     *)
(***************************************************************************)
RECURSIVE Pow2(_)
Pow2(k) == IF k = 0 THEN 1 ELSE 2 * Pow2(k - 1)

\* the delay of the (k+1)-th close in a row
BackoffAfter(k) == Min(RECONNECT_DELAY_MS * Pow2(k), MAX_RECONNECT_DELAY_MS)

\* C2: the close that follows k closes with no open in between schedules
\* its reconnect after min(3000 * 2^k, 30000) ms: 3000 right after an open,
\* then doubling, never above 30000.
C2_Step ==
  timerSeq' # timerSeq
    => /\ \E t \in timers' : t.id = timerSeq' /\ t.delay = BackoffAfter(closeStreak)
       /\ \A t \in timers' : t.delay <= MAX_RECONNECT_DELAY_MS
       /\ closeStreak' = closeStreak + 1

C2_Backoff == [][C2_Step]_vars

C2_Witness ==
  /\ closeStreak = 6
  /\ \E t \in timers : t.delay = MAX_RECONNECT_DELAY_MS

(***************************************************************************)
(* Properties of disposal, dispatch and malformed frames                   *)
(***************************************************************************)
\* C8: once the hook is unmounted no timer is pending, the socket of wsRef
\* is closing or closed with no onclose handler, and no later step makes a
\* socket or a timer or changes events, connected or error.
C8_Disposed ==
  hookPc = "unmounted"
    => /\ timers = {}
       /\ wsRef # 0 => /\ sockets[wsRef].readyState \in {"CLOSING", "CLOSED"}
                       /\ ~sockets[wsRef].onclose
       /\ \A s \in DOMAIN sockets : sockets[s].readyState # "OPEN"

C8_Frozen ==
  hookPc = "unmounted"
    => /\ Len(sockets') = Len(sockets)
       /\ timers' = timers /\ timerSeq' = timerSeq
       /\ events' = events /\ connected' = connected /\ error' = error
       /\ reconnectDelay' = reconnectDelay /\ wsRef' = wsRef

C8_NoLifeAfterDispose == []C8_Disposed /\ [][C8_Frozen]_vars

\* a socket closes with an error after the hook was unmounted while a
\* reconnect had been scheduled earlier
C8_Witness ==
  /\ hookPc = "unmounted"
  /\ last.op = "onclose" /\ last.arg = "failed"
  /\ timerSeq > 0
  /\ fetchState = "done"

\* C9: dispatch sends exactly the frame {action, knight, domain, task} on
\* the socket of wsRef when it is OPEN and nothing otherwise, changes nothing
\* else, and no other step ever sends.
WsRefIsOpen == wsRef # 0 /\ sockets[wsRef].readyState = "OPEN"

C9_Step ==
  /\ last'.op # "dispatch" => outbox' = outbox
  /\ last'.op = "dispatch" =>
       /\ WsRefIsOpen =>
            \E a \in DispatchArgs :
              outbox' = Append(outbox, [sock |-> wsRef,
                                        msg |-> [action |-> "dispatch", knight |-> a[1],
                                                 domain |-> a[2], task |-> a[3]]])
       /\ ~WsRefIsOpen => outbox' = outbox
       /\ UNCHANGED <<events, connected, error, reconnectDelay, sockets, wsRef,
                      timers, reconnectTimer>>

C9_DispatchFrame == [][C9_Step]_vars

\* a dispatch dropped on a socket that is not open, after one was sent
C9_Witness ==
  /\ last.op = "dispatch"
  /\ Len(outbox) = 1
  /\ wsRef # 0 /\ sockets[wsRef].readyState = "CONNECTING"

\* C10: a frame JSON.parse rejects changes nothing of the buffer, the flags,
\* the backoff or the sockets, and an event frame handled later is still
\* put at the head of the buffer.
C10_Step ==
  /\ (last'.op = "onmessage" /\ last'.arg = "garbage")
       => UNCHANGED <<events, connected, error, reconnectDelay, sockets, wsRef,
                      timers, timerSeq, reconnectTimer, recvCount>>
  /\ (last'.op = "onmessage" /\ last'.arg = "event" /\ mountedRef)
       => /\ events'[1] = [src |-> "live", n |-> recvCount + 1, shape |-> "event"]
          /\ SubSeq(events', 2, Len(events')) = Slice0(events, MAX_EVENTS - 1)

NamesOf(list) == {list[i].name : i \in DOMAIN list}

\* the entries of a step's dependsOn (none when it is null)
ParentsOf(list, i) ==
  IF list[i].hasDeps THEN {list[i].dependsOn[j] : j \in DOMAIN list[i].dependsOn}
  ELSE {}

ParentsOfName(list, nm) ==
  UNION {ParentsOf(list, i) : i \in {j \in DOMAIN list : list[j].name = nm}}

\* the names reached from S in at most k dependency edges (k >= 1)
RECURSIVE Ancestors(_, _, _)
Ancestors(list, S, k) ==
  LET up == UNION {ParentsOfName(list, nm) : nm \in S}
  IN  IF k = 1 THEN up ELSE up \cup Ancestors(list, up, k - 1)

OnCycle(list, nm) == nm \in Ancestors(list, {nm}, Len(list))

HasCycle(list) == \E nm \in NamesOf(list) : OnCycle(list, nm)

\* every dependsOn entry names a step of the list
Closed(list) == \A i \in DOMAIN list : ParentsOf(list, i) \subseteq NamesOf(list)

ColumnOf(nm) == positions[nm].col

\* C3: for an acyclic list whose dependsOn entries all name steps of the
\* list, layoutSteps returns, with column 0 for every step without
\* dependencies (empty or null) and 1 + the largest column of its
\* dependencies for every other step, hence a column above each of them.
C3_ColumnsTopological ==
  (~HasCycle(steps) /\ Closed(steps))
    => /\ layPc # "threw"
       /\ layPc = "done" =>
            \A i \in DOMAIN steps :
              /\ steps[i].name \in DOMAIN positions
              /\ ParentsOf(steps, i) = {} => ColumnOf(steps[i].name) = 0
              /\ ParentsOf(steps, i) # {} =>
                   /\ \A d \in ParentsOf(steps, i) :
                        d \in DOMAIN positions /\ ColumnOf(steps[i].name) > ColumnOf(d)
                   /\ \E d \in ParentsOf(steps, i) :
                        ColumnOf(steps[i].name) = ColumnOf(d) + 1

\* three steps laid out in columns 0, 1, 2, one of them with two parents in
\* different columns, one with dependsOn null
C3_Witness ==
  /\ layPc = "done"
  /\ ~HasCycle(steps) /\ Closed(steps)
  /\ Len(steps) = 3
  /\ {ColumnOf(steps[i].name) : i \in DOMAIN steps} = {0, 1, 2}
  /\ \E i \in DOMAIN steps : Cardinality(ParentsOf(steps, i)) = 2
  /\ \E i \in DOMAIN steps : ~steps[i].hasDeps

\* C4 (as claimed): a list with a dependency cycle makes layoutSteps end
\* with a CyclicDependency error naming a step of the cycle, never with an
\* exhausted call stack.
C4_CycleReported ==
  HasCycle(steps)
    => /\ layErr \in {Null, "CyclicDependency"}
       /\ layPc # "done"
       /\ layPc = "threw" => layErr = "CyclicDependency"

(***************************************************************************)
(* Properties of the fleet page's busy flag                                *)
(***************************************************************************)
\* a Result event of the same knight and the same task id, stamped later
AnsweredLater(t) ==
  \E j \in DOMAIN fleetEvents :
    /\ fleetEvents[j].type = "result"
    /\ KnightOf(fleetEvents[j]) = KnightOf(t)
    /\ Len(fleetEvents[j].subject) >= 4 /\ fleetEvents[j].subject[4] = t.subject[4]
    /\ fleetEvents[j].ts > t.ts

\* the Task events of a knight stamped less than 60 seconds ago
RecentTasks(nm) ==
  {i \in DOMAIN fleetEvents :
     /\ fleetEvents[i].type = "task"
     /\ KnightOf(fleetEvents[i]) = nm
     /\ FleetNow - fleetEvents[i].ts < BusyWindowMs}

\* C5 (as claimed), first half: a knight with a Task event of the last 60
\* seconds that no Result event of that task answered later is busy.
C5_UnansweredIsBusy ==
  fleetPc = "done" =>
    \A nm \in DOMAIN activity :
      (\E i \in RecentTasks(nm) : ~AnsweredLater(fleetEvents[i])) => activity[nm].busy

\* C5, second half: a knight whose Task events of the last 60 seconds were
\* all answered later by a Result event of the same task is not busy.
C5_AnsweredIsIdle ==
  fleetPc = "done" =>
    \A nm \in DOMAIN activity :
      (\A i \in RecentTasks(nm) : AnsweredLater(fleetEvents[i])) => ~activity[nm].busy

\* C5 (as claimed): the busy flag follows the unanswered tasks, task by task
C5_BusyByTaskId == C5_UnansweredIsBusy /\ C5_AnsweredIsIdle

(***************************************************************************)
(* Properties of the dispatch paths                                        *)
(***************************************************************************)
NameChars == Letters \cup Digits \cup {"-"}

\* a name of 1 to 63 characters, a letter first, then letters, digits, '-'
WellFormedName(str) ==
  /\ Len(str) \in 1..(NAME_TAIL_MAX + 1)
  /\ Head(str) \in Letters
  /\ {str[i] : i \in DOMAIN str} \subseteq NameChars

\* a request the claim lets through
Admissible(path, r) ==
  /\ r.json
  /\ path = "ws" => r.action = "dispatch"
  /\ WellFormedName(r.knight) /\ WellFormedName(r.domain)
  /\ r.task.bytes \in 1..TASK_MAX

C6_BusClean ==
  \A i \in DOMAIN bus :
    /\ WellFormedName(bus[i].payload.task_id.knight)
    /\ WellFormedName(bus[i].payload.domain)
    /\ bus[i].subject[3] = bus[i].payload.domain
    /\ bus[i].payload.task.bytes \in 1..TASK_MAX
    /\ bus[i].payload.task.chars \in 1..TASK_MAX

C6_Step ==
  /\ bus' # bus =>
       /\ Admissible(dispLast'.path, dispLast'.req)
       /\ Len(bus') = Len(bus) + 1 /\ SubSeq(bus', 1, Len(bus)) = bus
       /\ bus'[Len(bus')].payload.task_id.knight = dispLast'.req.knight
       /\ bus'[Len(bus')].payload.domain = dispLast'.req.domain
       /\ bus'[Len(bus')].payload.task = dispLast'.req.task
  /\ (dispLast'.path # "none" /\ ~Admissible(dispLast'.path, dispLast'.req)) =>
       /\ bus' = bus
       /\ dispLast'.path = "http" => dispLast'.status = 400

\* C6: on both paths a message reaches the bus only for a request whose
\* knight and domain match ^[a-zA-Z][a-zA-Z0-9-]{0,62}$ and whose task has
\* length 1..10000; every other request publishes nothing and, over HTTP, is
\* answered 400.
C6_DispatchValidated == []C6_BusClean /\ [][C6_Step]_vars

\* knight "../etc" over HTTP answered 400 with the bus left as it was
C6_Witness ==
  /\ dispLast.path = "http"
  /\ dispLast.req.knight = <<".", ".", "/", "e", "t", "c">>
  /\ dispLast.status = 400
  /\ Len(bus) = 1

(***************************************************************************)
(* Properties of the writers of the backend connection                     *)
(***************************************************************************)
\* between Lock and the return of conn.WriteMessage
InWrite(p) == connPc[p] \in {"deadline", "write"}

\* C11: no two of the task callback, the result callback and the ping
\* goroutine are inside a write to the connection at once.
C11_WritesExclusive ==
  \A p, q \in Writers : (p # q /\ InWrite(p)) => ~InWrite(q)

\* the task callback is writing while the two others wait for the lock
C11_Witness ==
  /\ connPc["task"] = "write"
  /\ connPc["result"] = "lock"
  /\ connPc["ping"] = "lock"

(***************************************************************************)
(* Properties of the reconnect timer                                       *)
(***************************************************************************)
\* sockets whose handlers can still be called
LiveSockets == {s \in DOMAIN sockets : sockets[s].readyState # "CLOSED"}

C12_TimerInv ==
  /\ Cardinality(timers) <= 1
  /\ timers # {} =>
       /\ ~connected
       /\ \A s \in DOMAIN sockets : sockets[s].readyState # "OPEN"
       /\ \A t \in timers : t.id = reconnectTimer
  /\ Cardinality(LiveSockets) <= 1
  /\ Cardinality({s \in LiveSockets : sockets[s].onclose}) <= 1

\* a step in which a timeout fired
C12_TimerStep ==
  (timers' # timers /\ timers' \subseteq timers /\ last'.op = "timer") =>
      /\ Cardinality(timers \ timers') = 1
      /\ Len(sockets') = Len(sockets) + 1
      /\ sockets'[Len(sockets')].readyState = "CONNECTING"
      /\ wsRef' = Len(sockets')

\* C12: a reconnect timer is pending only while disconnected, at most one is
\* pending, its firing starts exactly one connection attempt, and at most
\* one socket has live handlers.
C12_OneTimerOneSocket == []C12_TimerInv /\ [][C12_TimerStep]_vars

\* the timer set by the close of the first socket fired and made the second
C12_Witness ==
  /\ last.op = "timer"
  /\ Len(sockets) = 2
  /\ sockets[1].readyState = "CLOSED"
  /\ sockets[2].readyState = "CONNECTING"
  /\ timers = {}
  /\ ~connected

(***************************************************************************)
(* Properties of the reconnection after a connection loss                  *)
(***************************************************************************)
ErrorMessages == {Null, "WebSocket connection error"}

\* the k-th socket is the latest, it closed, and the hook is not disposed
LostAt(k) ==
  /\ Len(sockets) = k
  /\ sockets[k].readyState = "CLOSED"
  /\ mountedRef /\ hookPc = "mounted"

\* a further attempt was made, or the hook was disposed
RetriedAfter(k) == Len(sockets) > k \/ ~mountedRef

C13_FlagInv ==
  /\ \A t \in timers : t.delay >= RECONNECT_DELAY_MS /\ t.delay <= MAX_RECONNECT_DELAY_MS
  /\ mountedRef =>
       (connected <=> (wsRef # 0 /\ sockets[wsRef].readyState = "OPEN"))
  /\ error \in ErrorMessages

\* what a connection loss changes of the values handed to consumers
C13_LossStep ==
  last'.op = "onclose" =>
    /\ events' = events
    /\ mountedRef => ~connected'
    /\ error' \in {error, "WebSocket connection error"}

\* C13 (amended): after every loss of the connection of a hook not disposed a
\* new attempt is made after a delay of at most 30000 ms; consumers see the
\* loss as connected = false until the next open, and as the one fixed
\* error message when the connection failed.
C13_ReconnectsForever ==
  /\ []C13_FlagInv
  /\ [][C13_LossStep]_vars
  /\ \A k \in 1..(MaxAttempts - 1) : LostAt(k) ~> RetriedAfter(k)

\* C13 (as claimed): a connection loss changes nothing that consumers see
\* but the connected flag.
C13_OnlyConnectedFlag ==
  [][last'.op = "onclose" => (events' = events /\ error' = error)]_vars

\* the first connection was lost and the second one opened
C13_Witness ==
  /\ last.op = "onopen"
  /\ Len(sockets) = 2
  /\ sockets[1].readyState = "CLOSED"
  /\ sockets[2].readyState = "OPEN"
  /\ connected

(***************************************************************************)
(* Properties of the layout of a list with a dangling dependsOn entry      *)
(***************************************************************************)
\* the dependsOn entries of step i that name a step of the list
ExistingParents(list, i) == ParentsOf(list, i) \cap NamesOf(list)

Dangling(list) == \E i \in DOMAIN list : ParentsOf(list, i) \ NamesOf(list) # {}

\* C14 (as claimed): a dependsOn entry naming no step of the list is left
\* out of the column computation: the layout returns a position for every
\* step, column 0 for a step without an existing dependency and 1 + the
\* largest column of its existing dependencies otherwise.
C14_MissingDepIgnored ==
  (~HasCycle(steps) /\ Dangling(steps))
    => /\ layPc # "threw"
       /\ layPc = "done" =>
            \A i \in DOMAIN steps :
              /\ steps[i].name \in DOMAIN positions
              /\ ExistingParents(steps, i) = {} => ColumnOf(steps[i].name) = 0
              /\ ExistingParents(steps, i) # {} =>
                   /\ \A d \in ExistingParents(steps, i) :
                        ColumnOf(steps[i].name) > ColumnOf(d)
                   /\ \E d \in ExistingParents(steps, i) :
                        ColumnOf(steps[i].name) = ColumnOf(d) + 1

(***************************************************************************)
(* Properties of the rows                                                  *)
(***************************************************************************)
RowOf(nm) == positions[nm].row

\* the steps of the list laid out in column c
InColumn(c) == {i \in DOMAIN steps : ColumnOf(steps[i].name) = c}

\* C15 (as claimed): in every column the rows are 0, 1, 2, ... in the order
\* of the input list, whatever the dependencies.
C15_RowsInInputOrder ==
  (layPc = "done" /\ ~HasCycle(steps) /\ Closed(steps)) =>
    \A i \in DOMAIN steps :
      RowOf(steps[i].name) =
        Cardinality({j \in InColumn(ColumnOf(steps[i].name)) : j < i})

(***************************************************************************)
(* Properties of the fleet graph's activity                                *)
(***************************************************************************)
\* the buffer is newest first: entry j was received after entry i iff j < i
ResultReceivedAfter(i) ==
  \E j \in 1..(i - 1) :
    /\ graphEvents[j].type = "result"
    /\ KnightOf(graphEvents[j]) = KnightOf(graphEvents[i])
    /\ graphEvents[j].task_id = graphEvents[i].task_id

\* the Task events of a knight that carry a task_id
TasksWithId(name) ==
  {i \in DOMAIN graphEvents :
     /\ graphEvents[i].type = "task"
     /\ KnightOf(graphEvents[i]) = name
     /\ graphEvents[i].task_id # ""}

\* C16 (as claimed): a knight is busy exactly when one of its Task events
\* has no Result event of the same task_id received after it.
C16_BusyIffPending ==
  graphPc = "done" =>
    \A name \in KNIGHT_NAMES :
      graphAct[name].busy <=> (\E i \in TasksWithId(name) : ~ResultReceivedAfter(i))

TaskEventsOf(name) ==
  {i \in DOMAIN graphEvents :
     graphEvents[i].type = "task" /\ KnightOf(graphEvents[i]) = name}

\* C17: heat is min(recentTaskCount / 10, 1), raised to 0.5 for a busy
\* knight (in tenths: min(count, 10), raised to 5); so it is within [0, 1],
\* at least 0.5 when busy, and 0 without Task events and pending tasks.
C17_HeatFormula ==
  graphPc = "done" =>
    \A name \in KNIGHT_NAMES :
      LET n == Cardinality(TaskEventsOf(name))
          capped == IF n > 10 THEN 10 ELSE n
          a == graphAct[name]
      IN  /\ a.recentTasks = n
          /\ a.heat = IF a.busy /\ capped < 5 THEN 5 ELSE capped
          /\ a.heat >= 0 /\ a.heat <= 10
          /\ a.busy => a.heat >= 5
          /\ (n = 0 /\ ~a.busy) => a.heat = 0

\* galahad capped at heat 1 by more than ten Task events, kay busy and
\* raised to 0.5 by one
C17_Witness ==
  /\ graphPc = "done"
  /\ graphAct["galahad"].recentTasks > 10 /\ graphAct["galahad"].heat = 10
  /\ graphAct["kay"].recentTasks = 1 /\ graphAct["kay"].busy /\ graphAct["kay"].heat = 5

(***************************************************************************)
(* Properties of the recomputation on a change of the events prop          *)
(***************************************************************************)
\* whether the events prop v was replaced less than 300 ms after it came
ReplacedEarly(v) ==
  v + 2 <= Len(changeAt) /\ changeAt[v + 2] < changeAt[v + 1] + EDGE_DEBOUNCE_MS

\* the edges: every run is 300 ms after the change it is for, that change
\* was not followed by another within 300 ms, no prop is run on twice, and
\* nothing is pending once the component is unmounted
C18_EdgesDebounced ==
  /\ \A r \in DOMAIN edgeRuns :
       /\ edgeRuns[r].at = changeAt[edgeRuns[r].version + 1] + EDGE_DEBOUNCE_MS
       /\ ~ReplacedEarly(edgeRuns[r].version)
       /\ \A q \in DOMAIN edgeRuns : q # r => edgeRuns[q].version # edgeRuns[r].version
  /\ Cardinality(debTimers) <= 1
  /\ \A t \in debTimers : t.version = debVersion
  /\ debPc = "unmounted" => debTimers = {}

\* the render for a new events prop recomputes nothing by itself
C18_NothingSynchronous ==
  debVersion' # debVersion => (actRuns' = actRuns /\ edgeRuns' = edgeRuns)

\* after the unmount nothing is recomputed
C18_NothingAfterTeardown ==
  debPc = "unmounted" => (actRuns' = actRuns /\ edgeRuns' = edgeRuns)

\* C18 (as claimed): a change of the event list recomputes nothing in its
\* own render; a burst of changes less than 300 ms apart is followed by one
\* recomputation, 300 ms after the last change and on the latest list; after
\* the teardown none runs.
C18_Debounced ==
  /\ []C18_EdgesDebounced
  /\ [][C18_NothingAfterTeardown]_vars
  /\ [][C18_NothingSynchronous]_vars

(***************************************************************************)
(* Properties of the steps of a ChainSummary                               *)
(***************************************************************************)
\* the spec entries that are steps, and the names they carry
SpecStepsGiven == {i \in DOMAIN chainSpec : chainSpec[i].isMap}

StatusStepsGiven == {i \in DOMAIN chainStatus : chainStatus[i].isMap}

DepStrings(i) ==
  {chainSpec[i].dependsOn[k].v :
     k \in {j \in DOMAIN chainSpec[i].dependsOn : chainSpec[i].dependsOn[j].isStr}}

\* every dependsOn string of the spec names a step of the spec
SpecClosed ==
  \A i \in SpecStepsGiven :
    DepStrings(i) \subseteq {chainSpec[j].name : j \in SpecStepsGiven}

\* C19 (as claimed): every dependsOn entry of the steps returned is the name
\* of a step returned, whatever steps the status lists.
C19_DependsOnClosed ==
  (chainPc = "done" /\ SpecClosed) =>
    \A i \in DOMAIN chainSteps :
      \A k \in DOMAIN chainSteps[i].dependsOn :
        \E j \in DOMAIN chainSteps : chainSteps[j].name = chainSteps[i].dependsOn[k]

\* the i-th entry that is a step, counted among the steps only
NthOf(given, n) == CHOOSE i \in given : Cardinality({j \in given : j <= i}) = n

\* the spec step whose knight, domain and dependsOn a name gets: the last one
LastSpecOf(name) ==
  CHOOSE i \in SpecStepsGiven :
    /\ chainSpec[i].name = name
    /\ \A j \in SpecStepsGiven : chainSpec[j].name = name => j <= i

DepsAsGiven(i) ==
  LET strs == SelectSeq(chainSpec[i].dependsOn, LAMBDA d : d.isStr)
  IN  [k \in DOMAIN strs |-> strs[k].v]

\* C20: with a step in the status, the steps returned are the status steps
\* in status order, each with knight, domain and dependsOn of the spec step
\* of its name; with none, they are the spec steps in spec order, Pending,
\* without timestamps, with retry count 0 and the spec's dependsOn.
C20_StepsFromStatusOrSpec ==
  chainPc = "done" =>
    IF StatusStepsGiven # {}
    THEN /\ Len(chainSteps) = Cardinality(StatusStepsGiven)
         /\ \A n \in DOMAIN chainSteps :
              LET st == chainStatus[NthOf(StatusStepsGiven, n)]
                  out == chainSteps[n]
              IN  /\ out.name = st.name /\ out.phase = st.phase
                  /\ out.retryCount = st.retryCount
                  /\ out.startTime = (IF st.startTime = "" THEN Null ELSE st.startTime)
                  /\ out.completionTime =
                       (IF st.completionTime = "" THEN Null ELSE st.completionTime)
                  /\ IF \E i \in SpecStepsGiven : chainSpec[i].name = st.name
                     THEN /\ out.knight = chainSpec[LastSpecOf(st.name)].knight
                          /\ out.domain = chainSpec[LastSpecOf(st.name)].domain
                          /\ out.dependsOn = DepsAsGiven(LastSpecOf(st.name))
                     ELSE out.knight = "" /\ out.domain = "" /\ out.dependsOn = <<>>
    ELSE /\ Len(chainSteps) = Cardinality(SpecStepsGiven)
         /\ \A n \in DOMAIN chainSteps :
              LET sp == NthOf(SpecStepsGiven, n)
                  out == chainSteps[n]
              IN  /\ out.name = chainSpec[sp].name
                  /\ out.knight = chainSpec[sp].knight
                  /\ out.domain = chainSpec[sp].domain
                  /\ out.phase = "Pending"
                  /\ out.startTime = Null /\ out.completionTime = Null
                  /\ out.retryCount = 0
                  /\ out.dependsOn = DepsAsGiven(sp)

\* the status lists b then a while the spec lists a then b: b first, with
\* the spec's dependsOn
C20_Witness ==
  /\ chainPc = "done"
  /\ Len(chainSpec) = 2 /\ chainSpec[1].isMap /\ chainSpec[1].name = "a"
  /\ Len(chainSteps) = 2
  /\ chainSteps[1].name = "b" /\ chainSteps[1].phase = "Running"
  /\ chainSteps[1].dependsOn = <<"a">>
  /\ chainSteps[2].name = "a" /\ chainSteps[2].knight = "galahad"

(***************************************************************************)
(* Properties of the order of events on one connection                     *)
(***************************************************************************)
\* the calls of conn.WriteMessage made by the callback of subscription p
WritesOf(p) == {i \in DOMAIN wire : wire[i].by = p}

\* the entries of the client buffer that came from subscription p
BufferedOf(p) == {i \in DOMAIN clientEvents : clientEvents[i].src = p}

\* C21: the events of one subscription (tasks, or results) are written to
\* the client connection in the order the bus handed the messages to that
\* subscription, and in the client buffer the event received later sits at
\* the lower index; nothing is required between the two subscriptions.
C21_SubscriptionOrderKept ==
  \A p \in Callbacks :
    /\ \A i, j \in WritesOf(p) : i < j => wire[i].n < wire[j].n
    /\ \A i, j \in BufferedOf(p) : i < j => clientEvents[i].n > clientEvents[j].n

\* two task events with a result event between them have reached the client
C21_Witness ==
  /\ Len(clientEvents) = 3
  /\ clientEvents[1].src = "task" /\ clientEvents[1].n = 2
  /\ clientEvents[2].src = "result"
  /\ clientEvents[3].src = "task" /\ clientEvents[3].n = 1

(***************************************************************************)
(* Properties of the end of one backend connection                         *)
(***************************************************************************)
\* a step in which writer p calls conn.WriteMessage
WriteCall(p) == connPc[p] = "write" /\ connPc'[p] = "unlock"

\* C26: once the handler's cleanup has closed done and the connection, no
\* subscription callback and no ping goroutine calls conn.WriteMessage on
\* it, also when a callback had passed its done check before the exit.
C26_NoWriteAfterCleanup ==
  [][(doneClosed /\ connClosed) => \A p \in Writers : ~WriteCall(p)]_vars

\* the writers that were created by the time the handler returned
C28_Released ==
  handlerPc = "returned" =>
    /\ connClosed
    /\ \A p \in Callbacks : subs[p] # "active"

\* C28: on every exit path of the handler (task subscription fails, result
\* subscription fails, the read loop ends) every subscription that was
\* created is unsubscribed and the connection is closed, and the ping
\* goroutine, if it was started, eventually returns.
C28_NothingOutlivesHandler ==
  /\ []C28_Released
  /\ (handlerPc = "returned") ~> (connPc["ping"] \in {"unborn", "gone"})

\* the read loop ended and the handler returned; the ping goroutine
\* returned after a write that failed
C28_Witness ==
  /\ handlerPc = "returned"
  /\ subs = [p \in Callbacks |-> "unsubscribed"]
  /\ connPc["ping"] = "gone"
  /\ Len(wire) > 0
  /\ wire[Len(wire)].by = "ping" /\ wire[Len(wire)].err
  /\ Len(wire) > 1 => ~wire[Len(wire) - 1].err

(***************************************************************************)
(* Properties of the step node                                             *)
(***************************************************************************)
\* C22: the node shows the pulse ring exactly when phase is Running or the
\* name equals currentStep; its border is the Completed colour if phase is
\* Completed, else the Failed colour if phase is Failed, else the running
\* colour if it shows the ring, else the default; the retry annotation is
\* shown exactly when retryCount > 0. Nothing else of the step counts.
C22_NodeFromPhaseCurrentRetry ==
  nodePc = "done" =>
    /\ nodeView.pulse <=> (nodeStep.phase = "Running" \/ nodeStep.name = nodeCurrent)
    /\ nodeStep.phase = "Completed" => nodeView.border = "#22c55e"
    /\ nodeStep.phase = "Failed" => nodeView.border = "#ef4444"
    /\ (nodeStep.phase \notin {"Completed", "Failed"} /\ nodeView.pulse)
         => nodeView.border = "#3b82f6"
    /\ (nodeStep.phase \notin {"Completed", "Failed"} /\ ~nodeView.pulse)
         => nodeView.border = "#4b5563"
    /\ (nodeView.label.retry > 0) <=> (nodeStep.retryCount > 0)

\* a Pending step that the run names as its current step, retried once
C22_Witness ==
  /\ nodePc = "done"
  /\ nodeStep.phase = "Pending" /\ nodeStep.name = nodeCurrent
  /\ nodeStep.retryCount = 1
  /\ nodeView.pulse /\ nodeView.border = "#3b82f6" /\ nodeView.label.retry = 1

(***************************************************************************)
(* Properties of the domain taken from a subject                           *)
(***************************************************************************)
\* segment 2 (0-indexed) of the event's subject, "" when there is none
Segment2 == IF Len(domEvent.subject) >= 3 THEN domEvent.subject[3] ELSE ""

\* C23: every consumer of an event takes the domain from segment 2
\* (0-indexed) of the subject when the payload has no domain field: for
\* fleet-a.results.security.123 the activity aggregation, the fleet graph,
\* the message-flow filter and the notification hook all give 'security'.
C23_DomainIsSegment2 ==
  (domEvent.dataDomain = "" /\ Segment2 # "") =>
     \A c \in Consumers : domSeen[c] \in {"none", Segment2}

(***************************************************************************)
(* Properties of the fleet page's sparkline                                *)
(***************************************************************************)
\* the Result events of a knight stamped within the trailing 30 minutes
WindowResults(nm) ==
  {i \in DOMAIN fleetEvents :
     /\ fleetEvents[i].type = "result"
     /\ KnightOf(fleetEvents[i]) = nm
     /\ FleetNow - fleetEvents[i].ts <= WindowMs}

\* those of them whose age falls in bucket b: min(4, floor(age / 6 min))
InBucket(nm, b) ==
  {i \in WindowResults(nm) :
     LET q == (FleetNow - fleetEvents[i].ts) \div IntervalMs
     IN  (IF q > 4 THEN 4 ELSE q) = b}

\* C24: every knight's sparkline has exactly 5 values, each within [0, 1];
\* every Result event of the knight within the trailing 30 minutes is
\* counted in the bucket of its age (newest bucket last) and in recent,
\* older events are not counted; also with a timestamp later than now.
C24_SparklineOfWindow ==
  fleetPc = "done" =>
    \A nm \in DOMAIN activity :
      LET a == activity[nm]
      IN  /\ Len(a.sparkline) = 5
          /\ a.recent = Cardinality(WindowResults(nm))
          /\ \A b \in 0..4 :
               /\ a.sparkline[5 - b].k = "num"
               /\ a.sparkline[5 - b].v = Cardinality(InBucket(nm, b))
               /\ a.sparkline[5 - b].v <= a.sparkline[5 - b].of

(***************************************************************************)
(* Properties of the task notifications                                    *)
(***************************************************************************)
\* how many times addToast was called for event e
ToastsFor(e) == IF e \in DOMAIN toasts THEN toasts[e] ELSE 0

\* C25: every Result event received live gets exactly one toast and no
\* event gets more than one, also when the buffer is at its capacity of 200
\* and when the history seed puts entries behind the live ones. Stated of
\* the moments when the effect has run on the current events.
C25_OneToastPerLiveResult ==
  (mountedRef /\ effEvents = events) =>
    /\ \A k \in 1..recvCount : ToastsFor(ParsedEvent("event", k)) = 1
    /\ \A e \in DOMAIN toasts : ToastsFor(e) <= 1

(***************************************************************************)
(* Properties of the returned map                                          *)
(***************************************************************************)
\* the rows given to the steps of the list laid out in column c
RowsIn(c) == {RowOf(steps[i].name) : i \in InColumn(c)}

\* C27: the map layoutSteps returns has exactly the names of the input
\* steps as its keys, no two steps have the same (column, row), and the
\* rows of the k input steps of a column are exactly 0..k-1.
C27_MapOfInputSteps ==
  layPc = "done" =>
    /\ DOMAIN positions = NamesOf(steps)
    /\ \A i, j \in DOMAIN steps :
         (steps[i].name # steps[j].name) =>
            positions[steps[i].name] # positions[steps[j].name]
    /\ \A i \in DOMAIN steps :
         RowsIn(ColumnOf(steps[i].name))
           = 0..(Cardinality(InColumn(ColumnOf(steps[i].name))) - 1)

(***************************************************************************)
(* Properties of the task ids                                              *)
(***************************************************************************)
\* C29: any two published dispatches, on either path and for any knight,
\* carry distinct task_ids and distinct subjects, also two dispatches for
\* the same knight accepted within the same millisecond.
C29_TaskIdsDistinct ==
  \A i, j \in DOMAIN bus :
    i # j => /\ bus[i].payload.task_id # bus[j].payload.task_id
             /\ bus[i].subject # bus[j].subject

(***************************************************************************)
(* Properties of the dispatch form                                         *)
(***************************************************************************)
\* every entry of the recent-dispatch list is 'dispatched' and carries the
\* task_id of a message the backend published
C30_EntriesPublished ==
  \A i \in DOMAIN formResults :
    /\ formResults[i].status = "dispatched"
    /\ \E j \in DOMAIN bus : bus[j].payload.task_id = formResults[i].taskId

\* a dispatch answered 400 or 500 leaves the list and the task text alone
C30_RejectedStep ==
  (formLast'.status \in {400, 500} /\ <<formLast, dispLast, bus>>' # <<formLast, dispLast, bus>>)
     => UNCHANGED <<formResults, formTask>>

\* a dispatch() that adds an entry was answered 200
C30_AddedStep ==
  (formResults' # formResults) => (formLast'.status = 200 /\ Len(bus') = Len(bus) + 1)

\* C30: the form records a 'dispatched' entry only if the backend accepted
\* and published the request (its answer carries a task_id); a request
\* rejected with 400 or failed with 500 adds no entry and does not clear
\* the task text.
C30_DispatchedOnlyIfPublished ==
  []C30_EntriesPublished /\ [][C30_RejectedStep /\ C30_AddedStep]_vars

\* one dispatch was published and recorded; a later one with a task text
\* that is too long was answered 400 and the text is still in the form
C30_Witness ==
  /\ Len(formResults) = 1
  /\ formLast.status = 400
  /\ ~formTask.blank /\ formTask.bytes > TASK_MAX

====
